---- MODULE Spec2Model ----
(***************************************************************************)
(* Serial CLI client of src/flipper_serial.py (class FlipperSerial) and    *)
(* the device shell it talks to.  Bytes are one-character strings; "ESC"   *)
(* stands for the byte 0x1b and "xFF" for a byte that is not valid UTF-8.  *)
(* Time is counted in select() poll slices of 0.5 s.                       *)
(***************************************************************************)
EXTENDS Integers, Sequences, FiniteSets, TLC

\* ------------------------------------------------------------------ bounds
MaxOps == 2             \* operations issued on the session in one run
MaxFaults == 1          \* device responses that report a storage error
EnsureSlices == 1       \* poll slices in the _ensure_prompt deadline
CommandSlices == 1      \* poll slices in the send_command deadline
ReadySlices == 1        \* poll slices in the handshake deadline
AckSlices == 1          \* poll slices in the acknowledgement deadline
DrainSlices == 1        \* poll slices in the _drain_banner deadline

\* --------------------------------------------------------------- constants
WRITE_CHUNK_MAX == 512
READ_MAX == 4096
SNIPPET_MAX == 200

CLI_PROMPT_BYTES == <<">", ":", " ">>
READY == <<"R", "e", "a", "d", "y">>
STORAGE_ERROR == <<"S", "t", "o", "r", "a", "g", "e", " ", "e", "r", "r", "o", "r">>
CRLF == <<"\r", "\n">>
CR == <<"\r">>
ESC == "ESC"
STORAGE_WRITE_CHUNK ==
    <<"s", "t", "o", "r", "a", "g", "e", " ", "w", "r", "i", "t", "e", "_",
      "c", "h", "u", "n", "k", " ">>

Digits == <<"0", "1", "2", "3", "4", "5", "6", "7", "8", "9">>
DigitSet == {Digits[i] : i \in 1..10}
Letters ==
    {"a", "b", "c", "d", "e", "f", "g", "h", "i", "j", "k", "l", "m", "n", "o",
     "p", "q", "r", "s", "t", "u", "v", "w", "x", "y", "z",
     "A", "B", "C", "D", "E", "F", "G", "H", "I", "J", "K", "L", "M", "N", "O",
     "P", "Q", "R", "S", "T", "U", "V", "W", "X", "Y", "Z"}
Whitespace == {" ", "\t", "\n", "\r", "\f"}

\* ----------------------------------------------------------------- helpers
Min(a, b) == IF a < b THEN a ELSE b

\* bytes.__contains__ / str.__contains__: t occurs in s as a contiguous run
Contains(s, t) ==
    \E i \in 0..(Len(s) - Len(t)) : SubSeq(s, i + 1, i + Len(t)) = t

StartsWith(s, t) == Len(s) >= Len(t) /\ SubSeq(s, 1, Len(t)) = t

LastN(s, n) == SubSeq(s, Len(s) - Min(Len(s), n) + 1, Len(s))

RECURSIVE Cat(_, _, _)
\* concatenation of the pieces f[lo], ..., f[hi]
Cat(f, lo, hi) ==
    IF lo > hi THEN <<>>
    ELSE IF lo = hi THEN f[lo]
    ELSE LET mid == (lo + hi) \div 2 IN Cat(f, lo, mid) \o Cat(f, mid + 1, hi)

CsiParams == DigitSet \cup {";"}
\* rb'\x1b\[[0-9;]*[a-zA-Z]' matched at i: the index of its last byte, else 0
CsiLast(s, i) ==
    IF s[i] = ESC /\ i + 1 <= Len(s) /\ s[i + 1] = "["
    THEN LET stops == {j \in (i + 2)..Len(s) : s[j] \notin CsiParams}
             j == IF stops = {} THEN 0 ELSE CHOOSE x \in stops : \A y \in stops : x <= y
         IN IF j > 0 /\ s[j] \in Letters THEN j ELSE 0
    ELSE 0

\* _ANSI_RE.sub(b'', data): every byte that lies inside a match is removed
\* (a match holds no ESC after its first byte, so matches never overlap)
strip_ansi(data) ==
    LET starts == {i \in 1..Len(data) : data[i] = ESC /\ CsiLast(data, i) > 0}
        inside == UNION {i..CsiLast(data, i) : i \in starts}
    IN IF starts = {} THEN data
       ELSE Cat([k \in 1..Len(data) |-> IF k \in inside THEN <<>> ELSE <<data[k]>>],
                1, Len(data))

\* bytes.decode("utf-8", errors="replace")
Decode(data) ==
    [i \in 1..Len(data) |-> IF data[i] = "xFF" THEN "uFFFD" ELSE data[i]]

RECURSIVE IntToStr(_)
\* str(n) for n >= 0
IntToStr(n) ==
    IF n < 10 THEN <<Digits[n + 1]>>
    ELSE IntToStr(n \div 10) \o <<Digits[(n % 10) + 1]>>

HasSpace(s) == \E i \in 1..Len(s) : s[i] = " "

\* the path embedded as it is
QuoteNever(path) == path
\* f'"{path}"' if " " in path else path
Quote(path) == IF HasSpace(path) THEN <<"\"">> \o path \o <<"\"">> ELSE path

\* ------------------------------------------------------------------ inputs
Pattern == <<"A", "B", "C", "D", "E", "F", "G">>
\* a local file's content of length n: a known pattern of period 7
FileOfLen(n) == [i \in 1..n |-> Pattern[((i - 1) % 7) + 1]]
PayloadLens == {0, 512, 1000}
\* local_path: a regular file with its content, or a path that is no file
LocalFiles ==
    {[isfile |-> TRUE, content |-> FileOfLen(n)] : n \in PayloadLens}
        \cup {[isfile |-> FALSE, content |-> <<>>]}
RemotePaths == {<<"/", "e", "/", "a">>, <<"/", "e", "/", "a", " ", "b">>}
Commands == {<<"i", "n", "f", "o">>}

\* ------------------------------------------------------------------- state
VARIABLES
    fd,           \* "open" or "None": FlipperSerial.fd
    op,           \* the operation last started on the session
    pc,           \* position of the caller inside the operation in progress
    ret,          \* where _ensure_prompt returns to
    rup,          \* _read_until_prompt: "off", "run", "ret" or "timeout"
    remaining,    \* poll slices left before the current deadline
    data,         \* accumulator of _read_until_prompt
    cmd,          \* command string of send_command
    file_data,    \* storage_write: content of the local file
    remote_path,  \* storage_write: destination
    offset,       \* storage_write: bytes acknowledged so far
    chunk_num,    \* storage_write: chunks acknowledged so far
    ready_data,   \* storage_write: handshake accumulator
    resp_data,    \* storage_write: acknowledgement accumulator
    result,       \* outcome of the last completed operation
    ops,          \* operations started so far
    log,          \* what the operation has done to the port, in order
    reads,        \* TRUE once the operation has read from the port
    rx,           \* bytes the device has sent and the client has not read
    devin,        \* bytes the client has written and the device has not parsed
    out,          \* response fragments the device has still to send
    devMode,      \* device shell: at the line parser or receiving chunk data
    faults,       \* storage errors the device has reported
    handle,       \* the port's descriptor: "none", "open" or "closed"
    closes,       \* calls of os.close made on the descriptor
    attempt,      \* _drain_banner: index of the attempt in progress
    chunk,        \* _read_until_prompt: bytes of the latest os.read
    second,       \* a second caller of send_command on the same session
    batch,        \* upload_files of deploy.py: its loop over the uploads
    port,         \* FlipperSerial.port, <<>> while it is not set
    globbed,      \* what glob.glob("/dev/cu.usbmodemflip_*") returns, in its order
    printed       \* what detect_flipper_port has printed

lifevars == <<handle, closes, attempt, port, globbed, printed>>
sessionvars ==
    <<fd, op, pc, ret, rup, remaining, data, cmd, file_data, remote_path, offset,
      chunk_num, ready_data, resp_data, result, ops, log, reads, lifevars, chunk>>
clientvars == <<sessionvars, batch>>
devvars == <<devin, out, devMode, faults>>
vars == <<clientvars, rx, devvars, second>>

NoResult == [status |-> "none", detail |-> <<>>]
Ok(v) == [status |-> "ok", detail |-> v]
Raise(exc, text) == [status |-> exc, detail |-> text]

Wr(b) == [t |-> "write", b |-> b]
Fl == [t |-> "flush", b |-> <<>>]
Cl == [t |-> "close", b |-> <<>>]

\* the second caller before it has called anything
NoCaller ==
    [pc |-> "idle", rup |-> "off", remaining |-> 0, data |-> <<>>, cmd |-> <<>>,
     result |-> NoResult, log |-> <<>>]

\* "/dev/cu.usbmodemflip_"
PORT_PREFIX ==
    <<"/", "d", "e", "v", "/", "c", "u", ".", "u", "s", "b", "m", "o", "d", "e", "m",
      "f", "l", "i", "p", "_">>
\* the port of a session when a single Flipper is connected
DefaultPort == PORT_PREFIX \o <<"B">>

\* main() of deploy.py has not got as far as the directories and upload_files
\* has not been called.  uploads, dirs and d are the list of uploads, the list
\* collect_required_dirs made of it and the index of the directory at hand;
\* trace, acked and issued are history: the steps taken for the file at hand,
\* the bytes the device had acknowledged when the first attempt failed, and
\* the mkdir commands written so far
NoBatch ==
    [pc |-> "off", dry_run |-> FALSE, i |-> 0, attempt |-> 0, last_err |-> "none",
     success |-> 0, failed |-> 0, trace |-> <<>>, acked |-> 0,
     uploads |-> <<>>, dirs |-> <<>>, d |-> 0, issued |-> <<>>]

\* the calls a run may start on the session: MaxOps, and on top of them the
\* one mkdir per directory of a deployment
OpsLimit == MaxOps + Len(batch.dirs)

\* a session whose constructor has returned
InitSession ==
    /\ fd = "open"
    /\ op = "none"
    /\ pc = "idle"
    /\ ret = "idle"
    /\ rup = "off"
    /\ remaining = 0
    /\ data = <<>>
    /\ cmd = <<>>
    /\ file_data = <<>>
    /\ remote_path = <<>>
    /\ offset = 0
    /\ chunk_num = 0
    /\ ready_data = <<>>
    /\ resp_data = <<>>
    /\ result = NoResult
    /\ ops = 0
    /\ log = <<>>
    /\ reads = FALSE
    /\ rx = <<>>
    /\ devin = <<>>
    /\ out = <<>>
    /\ devMode = [m |-> "idle", need |-> 0]
    /\ faults = 0
    /\ handle = "open"
    /\ closes = 0
    /\ attempt = 0
    /\ chunk = <<>>
    /\ second = NoCaller
    /\ port = DefaultPort
    /\ globbed = <<DefaultPort>>
    /\ printed = <<>>

Init == InitSession /\ batch = NoBatch

\* a session that never takes itself for closed
SessionClosedNever == FALSE
\* if self.fd is None: raise OSError("Serial connection is closed")
SessionClosed == fd = "None"

\* ------------------------------------------------------- transport (client)
\* os.read(self.fd, 4096): whatever is pending, at most 4096 bytes
ReadGot == SubSeq(rx, 1, Min(Len(rx), READ_MAX))
ReadRest == SubSeq(rx, Min(Len(rx), READ_MAX) + 1, Len(rx))

\* f"... Received {len(data)} bytes: {data[-200:]!r}"
TimeoutSnippet(d) == LastN(d, SNIPPET_MAX)

\* the loop exit that returns the partial buffer
LoopExitReturn(d) == "ret"
\* after the loop of _read_until_prompt: raise TimeoutError or return data
LoopExit(d) == IF ~Contains(d, CLI_PROMPT_BYTES) THEN "timeout" ELSE "ret"

\* the prompt looked for in the bytes of the latest read only
AfterReadChunkOnly(d, c) == IF Contains(c, CLI_PROMPT_BYTES) THEN "ret" ELSE "run"
\* data += chunk; if CLI_PROMPT_BYTES in data: return data
AfterRead(d, c) == IF Contains(d, CLI_PROMPT_BYTES) THEN "ret" ELSE "run"

\* one iteration of the loop of _read_until_prompt, or its exit
ReadUntilPrompt ==
    /\ pc \in {"drain", "ensure", "cmdread"}
    /\ rup = "run"
    /\ IF remaining > 0
       THEN IF rx # <<>>
            THEN /\ chunk' = ReadGot
                 /\ data' = data \o chunk'
                 /\ rx' = ReadRest
                 /\ reads' = TRUE
                 /\ rup' = AfterRead(data', chunk')
                 /\ UNCHANGED remaining
            ELSE /\ IF Contains(data, CLI_PROMPT_BYTES)
                    THEN rup' = "ret" /\ UNCHANGED remaining
                    ELSE remaining' = remaining - 1 /\ UNCHANGED rup
                 /\ UNCHANGED <<data, chunk, rx, reads>>
       ELSE /\ rup' = LoopExit(data)
            /\ UNCHANGED <<data, chunk, rx, reads, remaining>>
    /\ UNCHANGED <<fd, op, pc, ret, cmd, file_data, remote_path, offset, chunk_num,
                   ready_data, resp_data, result, ops, log, devvars, lifevars, second,
                   batch>>

\* a timeout of the quiescence read passed over without a flush
EnsureFlushesNever == FALSE
\* except TimeoutError: termios.tcflush(self.fd, termios.TCIOFLUSH)
EnsureFlushes == rup = "timeout"

\* _ensure_prompt after its read: a timeout is swallowed by a flush
EnsurePromptReturn ==
    /\ pc = "ensure"
    /\ rup \in {"ret", "timeout"}
    /\ IF EnsureFlushes
       THEN rx' = <<>> /\ log' = Append(log, Fl)
       ELSE UNCHANGED <<rx, log>>
    /\ pc' = ret
    /\ rup' = "off"
    /\ chunk' = <<>>
    /\ UNCHANGED <<fd, op, ret, remaining, data, cmd, file_data, remote_path, offset,
                   chunk_num, ready_data, resp_data, result, ops, reads, devvars,
                   lifevars, second, batch>>

\* ----------------------------------------------------------- storage_write
\* the empty-file return left out
NothingToWriteNever(content) == FALSE
\* total_size == 0: nothing to write for empty files
NothingToWrite(content) == Len(content) = 0

\* entry of storage_write up to the write of _ensure_prompt
StorageWriteBody(local, remote) ==
    /\ pc = "idle"
    /\ ops < OpsLimit
    /\ ops' = ops + 1
    /\ op' = "storage_write"
    /\ cmd' = <<>>
    /\ data' = <<>>
    /\ ready_data' = <<>>
    /\ resp_data' = <<>>
    /\ offset' = 0
    /\ chunk_num' = 0
    /\ reads' = FALSE
    /\ IF SessionClosed \/ ~local.isfile \/ NothingToWrite(local.content)
       THEN /\ result' = IF SessionClosed THEN Raise("OSError", <<>>)
                         ELSE IF ~local.isfile THEN Raise("FileNotFoundError", <<>>)
                         ELSE Ok(<<>>)
            /\ log' = <<>>
            /\ file_data' = IF SessionClosed THEN <<>> ELSE local.content
            /\ remote_path' = <<>>
            /\ UNCHANGED <<pc, ret, rup, remaining, devin>>
       ELSE /\ file_data' = local.content
            /\ remote_path' = remote
            /\ result' = NoResult
            /\ log' = <<Wr(CRLF)>>
            /\ devin' = devin \o CRLF
            /\ remaining' = EnsureSlices
            /\ rup' = "run"
            /\ pc' = "ensure"
            /\ ret' = "declare"
    /\ UNCHANGED <<fd, rx, out, devMode, faults, lifevars, chunk, second>>

\* storage_write called by any caller but upload_files
StorageWrite(local, remote) == StorageWriteBody(local, remote) /\ UNCHANGED batch

\* the chunk size without the protocol ceiling
ChunkSizeNoCap == Len(file_data) - offset
\* chunk_size = min(WRITE_CHUNK_MAX, total_size - offset)
ChunkSize == Min(WRITE_CHUNK_MAX, Len(file_data) - offset)
\* the chunk taken from the start of the file whatever the offset
ChunkDataFromStart == SubSeq(file_data, 1, ChunkSize)
\* chunk_data = file_data[offset : offset + chunk_size]
ChunkData == SubSeq(file_data, offset + 1, offset + ChunkSize)
\* cmd = f"storage write_chunk {quoted_path} {chunk_size}"
DeclareCmd == STORAGE_WRITE_CHUNK \o Quote(remote_path) \o <<" ">> \o IntToStr(ChunkSize)
\* the declare command ended by a full line terminator
DeclareBytesCRLF == DeclareCmd \o CRLF
\* f"{cmd}\r".encode("utf-8")
DeclareBytes == DeclareCmd \o CR

\* head of the chunk loop: leave it, or write the chunk-declare command
Declare ==
    /\ pc = "declare"
    /\ IF offset < Len(file_data)
       THEN /\ log' = Append(log, Wr(DeclareBytes))
            /\ devin' = devin \o DeclareBytes
            /\ ready_data' = <<>>
            /\ remaining' = ReadySlices
            /\ pc' = "ready"
            /\ UNCHANGED result
       ELSE /\ result' = Ok(<<>>)
            /\ pc' = "idle"
            /\ UNCHANGED <<log, devin, ready_data, remaining>>
    /\ UNCHANGED <<fd, op, ret, rup, data, cmd, file_data, remote_path, offset,
                   chunk_num, resp_data, ops, reads, rx, out, devMode, faults,
                   lifevars, chunk, second, batch>>

\* one iteration of the handshake loop
ReadyPoll ==
    /\ pc = "ready"
    /\ remaining > 0
    /\ ~Contains(strip_ansi(ready_data), READY)
    /\ IF rx # <<>>
       THEN /\ ready_data' = ready_data \o ReadGot
            /\ rx' = ReadRest
            /\ reads' = TRUE
            /\ UNCHANGED remaining
       ELSE /\ remaining' = remaining - 1
            /\ UNCHANGED <<ready_data, rx, reads>>
    /\ UNCHANGED <<fd, op, pc, ret, rup, data, cmd, file_data, remote_path, offset,
                   chunk_num, resp_data, result, ops, log, devvars, lifevars, chunk,
                   second, batch>>

\* a handshake that goes on when the deadline passed without Ready or error
ReadyOutcomeLenient(clean_ready) ==
    IF ~Contains(clean_ready, READY) /\ Contains(Decode(clean_ready), STORAGE_ERROR)
    THEN "RuntimeError"
    ELSE "go"
\* the checks after the handshake loop
ReadyOutcome(clean_ready) ==
    IF ~Contains(clean_ready, READY)
    THEN IF Contains(Decode(clean_ready), STORAGE_ERROR)
         THEN "RuntimeError"
         ELSE "TimeoutError"
    ELSE "go"

\* a failed chunk step taken up again at the head of the chunk loop
AfterFailureRedeclare == "declare"
\* raise RuntimeError(...) / raise TimeoutError(...): nothing in storage_write
\* catches them, the call is left
AfterFailure == "idle"

\* after the handshake loop: fail, or write the chunk's raw data
SendData ==
    /\ pc = "ready"
    /\ remaining = 0 \/ Contains(strip_ansi(ready_data), READY)
    /\ LET clean_ready == strip_ansi(ready_data)
           text == Decode(clean_ready)
       IN IF ReadyOutcome(clean_ready) # "go"
          THEN /\ result' = Raise(ReadyOutcome(clean_ready), text)
               /\ pc' = AfterFailure
               /\ UNCHANGED <<log, devin, resp_data, remaining>>
          ELSE /\ log' = Append(log, Wr(ChunkData))
               /\ devin' = devin \o ChunkData
               /\ resp_data' = <<>>
               /\ remaining' = AckSlices
               /\ pc' = "ack"
               /\ UNCHANGED result
    /\ UNCHANGED <<fd, op, ret, rup, data, cmd, file_data, remote_path, offset,
                   chunk_num, ready_data, ops, reads, rx, out, devMode, faults,
                   lifevars, chunk, second, batch>>

\* one iteration of the acknowledgement loop
AckPoll ==
    /\ pc = "ack"
    /\ remaining > 0
    /\ ~Contains(strip_ansi(resp_data), CLI_PROMPT_BYTES)
    /\ IF rx # <<>>
       THEN /\ resp_data' = resp_data \o ReadGot
            /\ rx' = ReadRest
            /\ reads' = TRUE
            /\ UNCHANGED remaining
       ELSE /\ remaining' = remaining - 1
            /\ UNCHANGED <<resp_data, rx, reads>>
    /\ UNCHANGED <<fd, op, pc, ret, rup, data, cmd, file_data, remote_path, offset,
                   chunk_num, ready_data, result, ops, log, devvars, lifevars, chunk,
                   second, batch>>

\* the acknowledgement checks with the timeout test first
AckOutcomeTimeoutFirst(clean_resp) ==
    IF ~Contains(clean_resp, CLI_PROMPT_BYTES) THEN "TimeoutError"
    ELSE IF Contains(Decode(clean_resp), STORAGE_ERROR) THEN "RuntimeError"
    ELSE "go"
\* the acknowledgement checks without the test for the prompt
AckOutcomeNoPrompt(clean_resp) ==
    IF Contains(Decode(clean_resp), STORAGE_ERROR) THEN "RuntimeError" ELSE "go"
\* the checks after the acknowledgement loop
AckOutcome(clean_resp) ==
    IF Contains(Decode(clean_resp), STORAGE_ERROR) THEN "RuntimeError"
    ELSE IF ~Contains(clean_resp, CLI_PROMPT_BYTES) THEN "TimeoutError"
    ELSE "go"

\* the offset moved on by a full chunk whatever the size of the chunk sent
NextOffsetFullChunk == offset + WRITE_CHUNK_MAX
\* offset += chunk_size
NextOffset == offset + ChunkSize

\* after the acknowledgement loop: fail, or advance to the next chunk
AckCheck ==
    /\ pc = "ack"
    /\ remaining = 0 \/ Contains(strip_ansi(resp_data), CLI_PROMPT_BYTES)
    /\ LET clean_resp == strip_ansi(resp_data)
           resp_text == Decode(clean_resp)
       IN IF AckOutcome(clean_resp) # "go"
          THEN /\ result' = Raise(AckOutcome(clean_resp),
                                  IF AckOutcome(clean_resp) = "RuntimeError"
                                  THEN resp_text ELSE <<>>)
               /\ pc' = AfterFailure
               /\ UNCHANGED <<offset, chunk_num>>
          ELSE /\ offset' = NextOffset
               /\ chunk_num' = chunk_num + 1
               /\ pc' = "declare"
               /\ UNCHANGED result
    /\ UNCHANGED <<fd, op, ret, rup, remaining, data, cmd, file_data, remote_path,
                   ready_data, resp_data, ops, log, reads, rx, devvars, lifevars,
                   chunk, second, batch>>

\* ------------------------------------------------------------ send_command
\* .replace("\r\n", "\n").replace("\r", "\n")
Normalize(s) ==
    Cat([i \in 1..Len(s) |->
            IF s[i] # "\r" THEN <<s[i]>>
            ELSE IF i < Len(s) /\ s[i + 1] = "\n" THEN <<>>
            ELSE <<"\n">>],
        1, Len(s))

\* .split("\n")
SplitLines(s) ==
    LET seps == {i \in 1..Len(s) : s[i] = "\n"}
        \* position of the n-th separator; 0 and Len(s) + 1 stand at the ends
        sep(n) == IF n = 0 THEN 0
                  ELSE IF n > Cardinality(seps) THEN Len(s) + 1
                  ELSE CHOOSE i \in seps : Cardinality({j \in seps : j < i}) = n - 1
    IN [n \in 1..(Cardinality(seps) + 1) |-> SubSeq(s, sep(n - 1) + 1, sep(n) - 1)]

RECURSIVE LStrip(_)
LStrip(s) == IF s # <<>> /\ Head(s) \in Whitespace THEN LStrip(Tail(s)) ELSE s
RECURSIVE RStrip(_)
RStrip(s) ==
    IF s # <<>> /\ s[Len(s)] \in Whitespace THEN RStrip(SubSeq(s, 1, Len(s) - 1)) ELSE s
\* str.strip()
Strip(s) == RStrip(LStrip(s))

\* the echo test of one line
IsEcho(line, c) ==
    LET cleaned == Strip(line)
        cmd_stripped == Strip(c)
    IN cleaned = cmd_stripped \/ cleaned = CLI_PROMPT_BYTES \o cmd_stripped

\* without an echo line every line is skipped
OutputStartOrNothing(lines, c) ==
    IF \E i \in 1..Len(lines) : IsEcho(lines[i], c)
    THEN CHOOSE i \in 1..Len(lines) :
             /\ IsEcho(lines[i], c)
             /\ \A j \in 1..(i - 1) : ~IsEcho(lines[j], c)
    ELSE Len(lines)
\* output_start: index after the first echo line, 0 lines skipped if none
OutputStart(lines, c) ==
    IF \E i \in 1..Len(lines) : IsEcho(lines[i], c)
    THEN CHOOSE i \in 1..Len(lines) :
             /\ IsEcho(lines[i], c)
             /\ \A j \in 1..(i - 1) : ~IsEcho(lines[j], c)
    ELSE 0

RECURSIVE DropTrailing(_)
\* while output_lines and output_lines[-1].strip() in (">:", ">: ", ""): pop()
DropTrailing(ls) ==
    IF ls # <<>> /\ Strip(ls[Len(ls)]) \in {<<">", ":">>, CLI_PROMPT_BYTES, <<>>}
    THEN DropTrailing(SubSeq(ls, 1, Len(ls) - 1))
    ELSE ls

RECURSIVE Join(_)
\* "\n".join(lines)
Join(ls) ==
    IF ls = <<>> THEN <<>>
    ELSE IF Len(ls) = 1 THEN ls[1]
    ELSE ls[1] \o <<"\n">> \o Join(Tail(ls))

\* F applied to the value of v, which is computed once
Bind(v, F(_)) == CHOOSE r \in {F(x) : x \in {v}} : TRUE

\* the text send_command returns for the raw bytes read
LogicalResponse(c, raw) ==
    Bind(strip_ansi(raw), LAMBDA clean :
    Bind(Decode(clean), LAMBDA response :
    Bind(Normalize(response), LAMBDA normal :
    Bind(SplitLines(normal), LAMBDA lines :
    Bind(SubSeq(lines, OutputStart(lines, c) + 1, Len(lines)), LAMBDA output_lines :
    Bind(DropTrailing(output_lines), LAMBDA kept :
    Bind(Join(kept), LAMBDA joined : Strip(joined))))))))

\* entry of send_command up to the write of _ensure_prompt, for the public
\* method `name` that was called
SendCommandBody(name, c) ==
    /\ pc = "idle"
    /\ ops < OpsLimit
    /\ ops' = ops + 1
    /\ op' = name
    /\ data' = <<>>
    /\ file_data' = <<>>
    /\ remote_path' = <<>>
    /\ ready_data' = <<>>
    /\ resp_data' = <<>>
    /\ offset' = 0
    /\ chunk_num' = 0
    /\ reads' = FALSE
    /\ IF SessionClosed
       THEN /\ result' = Raise("OSError", <<>>)
            /\ log' = <<>>
            /\ cmd' = <<>>
            /\ UNCHANGED <<pc, ret, rup, remaining, devin>>
       ELSE /\ cmd' = c
            /\ result' = NoResult
            /\ log' = <<Wr(CRLF)>>
            /\ devin' = devin \o CRLF
            /\ remaining' = EnsureSlices
            /\ rup' = "run"
            /\ pc' = "ensure"
            /\ ret' = "cmdwrite"
    /\ UNCHANGED <<fd, rx, out, devMode, faults, lifevars, chunk, second>>

\* the same called by any caller but create_flipper_dirs
SendCommandAs(name, c) == SendCommandBody(name, c) /\ UNCHANGED batch

SendCommand(c) == SendCommandAs("send_command", c)

STORAGE_MKDIR == <<"s", "t", "o", "r", "a", "g", "e", " ", "m", "k", "d", "i", "r", " ">>
STORAGE_STAT == <<"s", "t", "o", "r", "a", "g", "e", " ", "s", "t", "a", "t", " ">>
STORAGE_LIST == <<"s", "t", "o", "r", "a", "g", "e", " ", "l", "i", "s", "t", " ">>

\* storage_mkdir: send_command(f"storage mkdir {quoted}")
StorageMkdir(path) == SendCommandAs("storage_mkdir", STORAGE_MKDIR \o Quote(path))
\* storage_stat: send_command(f"storage stat {path}")
StorageStat(path) == SendCommandAs("storage_stat", STORAGE_STAT \o path)
\* storage_list: send_command(f"storage list {path}")
StorageList(path) == SendCommandAs("storage_list", STORAGE_LIST \o path)

\* the marker looked for at the start of the response only
StatResultAtStart(response) ==
    IF StartsWith(response, STORAGE_ERROR) THEN <<"False">> ELSE <<"True">>
\* return "Storage error" not in response
StatResult(response) ==
    IF Contains(response, STORAGE_ERROR) THEN <<"False">> ELSE <<"True">>

DIR_MARK == <<"[", "D", "]">>
FILE_MARK == <<"[", "F", "]">>
\* index of the last whitespace character of s, 0 if it has none
LastWhite(s) ==
    LET ws == {i \in 1..Len(s) : s[i] \in Whitespace}
    IN IF ws = {} THEN 0 ELSE CHOOSE i \in ws : \A j \in ws : j <= i
\* the name cut at its first whitespace
FileNameFirstToken(parts) ==
    LET ws == {i \in 1..Len(parts) : parts[i] \in Whitespace}
    IN IF ws = {} THEN parts
       ELSE SubSeq(parts, 1, (CHOOSE i \in ws : \A j \in ws : i <= j) - 1)
\* parts.rsplit(None, 1)[0] if the split gives two tokens, else parts
FileName(parts) ==
    IF LastWhite(parts) = 0 THEN parts
    ELSE RStrip(SubSeq(parts, 1, LastWhite(parts) - 1))
\* the entries one line of the listing yields: none or one
ListEntry(raw_line) ==
    LET line == Strip(raw_line)
        rest == Strip(SubSeq(line, 5, Len(line)))
    IN IF line = <<>> \/ Contains(line, STORAGE_ERROR) THEN <<>>
       ELSE IF StartsWith(line, DIR_MARK)
       THEN IF rest # <<>> THEN <<<<rest, "dir">>>> ELSE <<>>
       ELSE IF StartsWith(line, FILE_MARK)
       THEN IF rest # <<>> THEN <<<<FileName(rest), "file">>>> ELSE <<>>
       ELSE <<>>
\* the loop of storage_list over response.split("\n")
ListResult(response) ==
    LET lines == SplitLines(response)
    IN Cat([i \in 1..Len(lines) |-> ListEntry(lines[i])], 1, Len(lines))

\* what the public method makes of the text send_command returned
MethodResult(name, response) ==
    IF name = "storage_stat" THEN StatResult(response)
    ELSE IF name = "storage_list" THEN ListResult(response)
    ELSE response

\* a storage error in the response of mkdir turned into a failure
MkdirOutcomeStrict(response) ==
    IF Contains(response, STORAGE_ERROR) THEN Raise("RuntimeError", response)
    ELSE Ok(response)
\* storage_mkdir returns the response whatever it says: "Storage error:
\* already exists" is not a real error for mkdir
MkdirOutcome(response) == Ok(response)

\* how the public method ends once send_command has returned the text
MethodOutcome(name, response) ==
    IF name = "storage_mkdir" THEN MkdirOutcome(response)
    ELSE Ok(MethodResult(name, response))

\* write the command line and start reading the response
CommandWrite ==
    /\ pc = "cmdwrite"
    /\ log' = Append(log, Wr(cmd \o CRLF))
    /\ devin' = devin \o cmd \o CRLF
    /\ data' = <<>>
    /\ remaining' = CommandSlices
    /\ rup' = "run"
    /\ pc' = "cmdread"
    /\ UNCHANGED <<fd, op, ret, cmd, file_data, remote_path, offset, chunk_num,
                   ready_data, resp_data, result, ops, reads, rx, out, devMode,
                   faults, lifevars, chunk, second, batch>>

\* send_command after its read: the timeout propagates, or the text is returned
CommandReturn ==
    /\ pc = "cmdread"
    /\ rup \in {"ret", "timeout"}
    /\ result' = IF rup = "timeout"
                 THEN Raise("TimeoutError", TimeoutSnippet(data))
                 ELSE MethodOutcome(op, LogicalResponse(cmd, data))
    /\ pc' = "idle"
    /\ rup' = "off"
    /\ chunk' = <<>>
    /\ UNCHANGED <<fd, op, ret, remaining, data, cmd, file_data, remote_path, offset,
                   chunk_num, ready_data, resp_data, ops, log, reads, rx, devvars,
                   lifevars, second, batch>>

\* ------------------------------------------------------------------- close
\* a close that releases the descriptor whether or not the session holds one
CloseReleasesAlways == TRUE
\* if self.fd is not None: the descriptor is released only while it is held
CloseReleases == fd # "None"

\* a close that leaves the descriptor's number in the session
FdAfterCloseStale == "open"
\* self.fd = None
FdAfterClose == "None"

\* close(), reached by the name `how`; an OSError of os.close is swallowed, so
\* the call returns normally in every case
CloseBody(how) ==
    /\ ops < MaxOps
    /\ ops' = ops + 1
    /\ op' = how
    /\ IF CloseReleases
       THEN handle' = "closed" /\ closes' = closes + 1 /\ log' = <<Cl>>
       ELSE log' = <<>> /\ UNCHANGED <<handle, closes>>
    /\ fd' = FdAfterClose
    /\ reads' = FALSE
    /\ result' = Ok(<<>>)
    /\ cmd' = <<>>
    /\ data' = <<>>
    /\ file_data' = <<>>
    /\ remote_path' = <<>>
    /\ ready_data' = <<>>
    /\ resp_data' = <<>>
    /\ offset' = 0
    /\ chunk_num' = 0
    /\ UNCHANGED <<ret, rup, remaining, rx, devvars, attempt, port, globbed, printed,
                   chunk, second, batch>>

Close ==
    /\ pc = "idle"
    /\ CloseBody("close")
    /\ UNCHANGED pc

\* __exit__: the end of a with block, reached normally or by an exception
Exit ==
    /\ pc = "idle"
    /\ CloseBody("__exit__")
    /\ UNCHANGED pc

\* __del__: the object is collected, after use or after a constructor that
\* was interrupted; nothing can be called on it afterwards
Del ==
    /\ pc \in {"idle", "unbound"}
    /\ CloseBody("__del__")
    /\ pc' = "dead"

\* ------------------------------------------------------------------ device
\* The CLI shell at the other end of the line, as the module describes it:
\* it echoes a command with VT100 insert-mode toggles, acts on "\r", answers
\* with text ended by the prompt, and after write_chunk reads <size> raw bytes.
NotLF(c) == c # "\n"
Positions(s, c) == {i \in 1..Len(s) : s[i] = c}
FirstCR(s) == CHOOSE i \in Positions(s, "\r") : \A j \in Positions(s, "\r") : i <= j
\* index of the last space of s, 0 if it has none
LastSpace(s) ==
    IF Positions(s, " ") = {} THEN 0
    ELSE CHOOSE i \in Positions(s, " ") : \A j \in Positions(s, " ") : j <= i
DigitVal(d) == CHOOSE k \in 0..9 : Digits[k + 1] = d
RECURSIVE ParseInt(_)
ParseInt(s) ==
    IF s = <<>> THEN 0
    ELSE ParseInt(SubSeq(s, 1, Len(s) - 1)) * 10 + DigitVal(s[Len(s)])

IsChunkLine(line) ==
    /\ StartsWith(line, STORAGE_WRITE_CHUNK)
    /\ LastSpace(line) < Len(line)
    /\ \A i \in (LastSpace(line) + 1)..Len(line) : line[i] \in DigitSet
DeclaredSize(line) == ParseInt(SubSeq(line, LastSpace(line) + 1, Len(line)))

Echo(line) == <<ESC, "[", "4", "h">> \o line \o <<ESC, "[", "4", "l">> \o CRLF
PromptText == CRLF \o CLI_PROMPT_BYTES
ErrorText == STORAGE_ERROR \o <<":", " ", "x">> \o CRLF
OutputText == <<"o", "k">> \o CRLF

Idle == [m |-> "idle", need |-> 0]
Await(n) == [m |-> "await", need |-> n]

\* the device sends the parts of a response: the first now, the rest later
Respond(parts) ==
    /\ rx' = rx \o Head(parts)
    /\ out' = out \o Tail(parts)

\* the shell executes the next line of its input
DevLine ==
    /\ devMode.m = "idle"
    /\ out = <<>>
    /\ Positions(devin, "\r") # {}
    /\ LET k == FirstCR(devin)
           line == SelectSeq(SubSeq(devin, 1, k - 1), NotLF)
       IN /\ devin' = SubSeq(devin, k + 1, Len(devin))
          /\ IF line = <<>>
             THEN /\ Respond(<<PromptText>>)
                  /\ UNCHANGED <<devMode, faults>>
             ELSE IF IsChunkLine(line)
             THEN \/ /\ Respond(<<Echo(line) \o READY \o CRLF>>)
                     /\ devMode' = Await(DeclaredSize(line))
                     /\ UNCHANGED faults
                  \/ /\ faults < MaxFaults
                     /\ faults' = faults + 1
                     /\ Respond(<<Echo(line) \o ErrorText, PromptText>>)
                     /\ UNCHANGED devMode
             ELSE \/ /\ Respond(<<Echo(line) \o OutputText \o PromptText>>)
                     /\ UNCHANGED <<devMode, faults>>
                  \/ /\ faults < MaxFaults
                     /\ faults' = faults + 1
                     /\ Respond(<<Echo(line) \o ErrorText, PromptText>>)
                     /\ UNCHANGED devMode
    /\ UNCHANGED <<clientvars, second>>

\* write_chunk takes raw bytes until the declared size is reached
DevData ==
    /\ devMode.m = "await"
    /\ out = <<>>
    /\ devin # <<>>
    /\ LET k == Min(devMode.need, Len(devin))
       IN /\ devin' = SubSeq(devin, k + 1, Len(devin))
          /\ IF k < devMode.need
             THEN /\ devMode' = Await(devMode.need - k)
                  /\ UNCHANGED <<rx, out, faults>>
             ELSE /\ devMode' = Idle
                  /\ \/ /\ Respond(<<PromptText>>)
                        /\ UNCHANGED faults
                     \/ /\ faults < MaxFaults
                        /\ faults' = faults + 1
                        /\ Respond(<<ErrorText, PromptText>>)
    /\ UNCHANGED <<clientvars, second>>

\* the next part of the device's response arrives at the client's port
DevEmit ==
    /\ out # <<>>
    /\ rx' = rx \o Head(out)
    /\ out' = Tail(out)
    /\ UNCHANGED <<clientvars, devin, devMode, faults, second>>

\* --------------------------------------------------------- specification
Next ==
    \/ \E local \in LocalFiles, remote \in RemotePaths : StorageWrite(local, remote)
    \/ ReadUntilPrompt
    \/ EnsurePromptReturn
    \/ Declare
    \/ ReadyPoll
    \/ SendData
    \/ AckPoll
    \/ AckCheck
    \/ \E c \in Commands : SendCommand(c)
    \/ CommandWrite
    \/ CommandReturn
    \/ Close
    \/ DevLine
    \/ DevData
    \/ DevEmit

Spec == Init /\ [][Next]_vars

\* a session on which only commands are sent; CommandStep is the caller's
\* thread: it is scheduled, and select() returns within its slice, while the
\* device is under no obligation to answer
CommandStep ==
    \/ ReadUntilPrompt
    \/ EnsurePromptReturn
    \/ CommandWrite
    \/ CommandReturn

NextCommand ==
    \/ \E c \in Commands : SendCommand(c)
    \/ CommandStep
    \/ Close
    \/ DevLine
    \/ DevEmit

CommandSpec == Init /\ [][NextCommand]_vars /\ WF_vars(CommandStep)

\* ----------------------------------------------------------- second caller
\* A second thread of the program that holds the same session object and
\* calls send_command on it.  The class has no lock and no busy flag: the call
\* runs the same code on the same descriptor, with locals of its own.
SecondSendCommand(c) ==
    /\ second.pc = "idle"
    /\ second.result = NoResult
    /\ IF SessionClosed
       THEN /\ second' = [second EXCEPT !.result = Raise("OSError", <<>>)]
            /\ UNCHANGED devin
       ELSE /\ second' = [second EXCEPT !.cmd = c, !.log = <<Wr(CRLF)>>,
                                         !.remaining = EnsureSlices, !.rup = "run",
                                         !.data = <<>>, !.pc = "ensure"]
            /\ devin' = devin \o CRLF
    /\ UNCHANGED <<clientvars, rx, out, devMode, faults>>

\* one iteration of the loop of _read_until_prompt in the second caller
SecondReadUntilPrompt ==
    /\ second.pc \in {"ensure", "cmdread"}
    /\ second.rup = "run"
    /\ IF second.remaining > 0
       THEN IF rx # <<>>
            THEN /\ second' = [second EXCEPT
                                  !.data = second.data \o ReadGot,
                                  !.rup = AfterRead(second.data \o ReadGot, ReadGot)]
                 /\ rx' = ReadRest
            ELSE /\ second' = IF Contains(second.data, CLI_PROMPT_BYTES)
                              THEN [second EXCEPT !.rup = "ret"]
                              ELSE [second EXCEPT !.remaining = second.remaining - 1]
                 /\ UNCHANGED rx
       ELSE /\ second' = [second EXCEPT !.rup = LoopExit(second.data)]
            /\ UNCHANGED rx
    /\ UNCHANGED <<clientvars, devvars>>

\* _ensure_prompt after its read, then the write of the command line
SecondCommandWrite ==
    /\ second.pc = "ensure"
    /\ second.rup \in {"ret", "timeout"}
    /\ rx' = IF second.rup = "timeout" THEN <<>> ELSE rx
    /\ second' = [second EXCEPT
                     !.log = second.log
                                 \o (IF second.rup = "timeout" THEN <<Fl>> ELSE <<>>)
                                 \o <<Wr(second.cmd \o CRLF)>>,
                     !.data = <<>>, !.remaining = CommandSlices, !.rup = "run",
                     !.pc = "cmdread"]
    /\ devin' = devin \o second.cmd \o CRLF
    /\ UNCHANGED <<clientvars, out, devMode, faults>>

\* send_command after its read, in the second caller
SecondCommandReturn ==
    /\ second.pc = "cmdread"
    /\ second.rup \in {"ret", "timeout"}
    /\ second' = [second EXCEPT
                     !.result = IF second.rup = "timeout"
                                THEN Raise("TimeoutError", TimeoutSnippet(second.data))
                                ELSE Ok(LogicalResponse(second.cmd, second.data)),
                     !.pc = "idle", !.rup = "off"]
    /\ UNCHANGED <<clientvars, rx, devvars>>

NextShared ==
    \/ \E c \in Commands : SendCommand(c)
    \/ CommandStep
    \/ \E c \in Commands : SecondSendCommand(c)
    \/ SecondReadUntilPrompt
    \/ SecondCommandWrite
    \/ SecondCommandReturn
    \/ Close
    \/ DevLine
    \/ DevEmit

\* one session object shared by two callers
SharedSpec == Init /\ [][NextShared]_vars

\* ------------------------------------------------------ session life cycle
\* the first attempt given up without a second one
DrainRetriesNever(a) == FALSE
\* except TimeoutError: if attempt == 0: flush and go round the loop again
DrainRetries(a) == a = 0

\* the characters of port names in the order of their code points
CodeOrder ==
    <<"-", ".", "/", "0", "1", "2", "3", "4", "5", "6", "7", "8", "9",
      "A", "B", "C", "D", "E", "F", "G", "H", "I", "J", "K", "L", "M", "N", "O",
      "P", "Q", "R", "S", "T", "U", "V", "W", "X", "Y", "Z", "_",
      "a", "b", "c", "d", "e", "f", "g", "h", "i", "j", "k", "l", "m", "n", "o",
      "p", "q", "r", "s", "t", "u", "v", "w", "x", "y", "z">>
Ord(c) == CHOOSE i \in 1..Len(CodeOrder) : CodeOrder[i] = c
\* a <= b as Python compares two str
StrLeq(a, b) ==
    LET diff == {i \in 1..Min(Len(a), Len(b)) : a[i] # b[i]}
    IN IF diff = {} THEN Len(a) <= Len(b)
       ELSE LET i == CHOOSE x \in diff : \A y \in diff : x <= y
            IN Ord(a[i]) < Ord(b[i])
\* the candidates in the order glob.glob returned them
SortedNot(s) == s
\* sorted(...): ascending, equal elements in their former order
Sorted(s) ==
    LET before(j, k) == (StrLeq(s[j], s[k]) /\ s[j] # s[k]) \/ (s[j] = s[k] /\ j <= k)
        rank(k) == Cardinality({j \in 1..Len(s) : before(j, k)})
    IN [i \in 1..Len(s) |-> s[CHOOSE k \in 1..Len(s) : rank(k) = i]]

\* __init__ and _open up to the first write of _drain_banner, for the port
\* argument `given` (<<>> for None); detect_flipper_port, os.open and the
\* termios calls succeed or raise
Open(given, opened, configured) ==
    /\ pc = "new"
    /\ op' = "__init__"
    /\ LET ports == Sorted(globbed) IN
       IF given = <<>> /\ ports = <<>>
       THEN /\ result' = Raise("FileNotFoundError", <<>>)
            /\ pc' = "unbound"
            /\ UNCHANGED <<port, printed, fd, handle, closes, log, rx, devin, rup,
                           remaining>>
       ELSE /\ port' = IF given = <<>> THEN ports[1] ELSE given
            /\ printed' = IF given = <<>> /\ Len(ports) > 1
                          THEN <<[text |-> "Multiple Flipper ports found", ports |-> ports],
                                 [text |-> "Using", ports |-> <<ports[1]>>]>>
                          ELSE <<>>
            /\ IF ~opened
               THEN /\ result' = Raise("OSError", <<>>)
                    /\ pc' = "unbound"
                    /\ UNCHANGED <<fd, handle, closes, log, rx, devin, rup, remaining>>
               ELSE IF ~configured
               THEN /\ handle' = "closed"
                    /\ closes' = closes + 1
                    /\ result' = Raise("termios.error", <<>>)
                    /\ pc' = "unbound"
                    /\ UNCHANGED <<fd, log, rx, devin, rup, remaining>>
               ELSE /\ handle' = "open"
                    /\ fd' = "open"
                    /\ rx' = <<>>
                    /\ log' = <<Fl, Wr(CRLF)>>
                    /\ devin' = devin \o CRLF
                    /\ remaining' = DrainSlices
                    /\ rup' = "run"
                    /\ pc' = "drain"
                    /\ UNCHANGED <<result, closes>>
    /\ UNCHANGED <<ret, data, cmd, file_data, remote_path, offset, chunk_num,
                   ready_data, resp_data, ops, reads, out, devMode, faults, attempt,
                   globbed, chunk, second, batch>>

\* _drain_banner after a read, and the except clause of _open around it
DrainReturn ==
    /\ pc = "drain"
    /\ rup \in {"ret", "timeout"}
    /\ chunk' = <<>>
    /\ IF rup = "ret"
       THEN /\ result' = Ok(<<>>)
            /\ pc' = "idle"
            /\ rup' = "off"
            /\ UNCHANGED <<fd, handle, closes, attempt, log, rx, devin, data, remaining>>
       ELSE IF DrainRetries(attempt)
       THEN /\ rx' = <<>>
            /\ log' = log \o <<Fl, Wr(CRLF)>>
            /\ devin' = devin \o CRLF
            /\ attempt' = attempt + 1
            /\ data' = <<>>
            /\ remaining' = DrainSlices
            /\ rup' = "run"
            /\ UNCHANGED <<fd, handle, closes, result, pc>>
       ELSE /\ handle' = "closed"
            /\ closes' = closes + 1
            /\ fd' = "None"
            /\ result' = Raise("TimeoutError", <<>>)
            /\ pc' = "unbound"
            /\ rup' = "off"
            /\ UNCHANGED <<attempt, log, rx, devin, data, remaining>>
    /\ UNCHANGED <<op, ret, cmd, file_data, remote_path, offset, chunk_num, ready_data,
                   resp_data, ops, reads, out, devMode, faults, port, globbed, printed,
                   second, batch>>

\* KeyboardInterrupt while the caller waits inside an operation: the call in
\* progress is left at once; no except clause of the class catches it
Interrupt ==
    /\ pc \in {"drain", "ensure", "cmdwrite", "cmdread", "declare", "ready", "ack"}
    /\ result' = Raise("KeyboardInterrupt", <<>>)
    /\ pc' = IF pc = "drain" THEN "unbound" ELSE "idle"
    /\ rup' = "off"
    /\ chunk' = <<>>
    /\ UNCHANGED <<fd, op, ret, remaining, data, cmd, file_data, remote_path, offset,
                   chunk_num, ready_data, resp_data, ops, log, reads, rx, devvars,
                   lifevars, second, batch>>

\* what the shell prints when the port is connected, ended by its prompt; the
\* USB link delivers it in packets, here with a packet boundary in the prompt
Banner == <<"F", "l", "i", "p", "\r", "\n">>
BannerParts == <<Banner \o CRLF \o <<">">>, <<":", " ">>>>

\* before FlipperSerial(port) is called, whatever glob.glob would return
InitNewSession ==
    /\ fd = "None"
    /\ op = "none"
    /\ pc = "new"
    /\ ret = "idle"
    /\ rup = "off"
    /\ remaining = 0
    /\ data = <<>>
    /\ cmd = <<>>
    /\ file_data = <<>>
    /\ remote_path = <<>>
    /\ offset = 0
    /\ chunk_num = 0
    /\ ready_data = <<>>
    /\ resp_data = <<>>
    /\ result = NoResult
    /\ ops = 0
    /\ log = <<>>
    /\ reads = FALSE
    /\ rx = <<>>
    /\ devin = <<>>
    /\ out \in {<<>>, BannerParts}
    /\ devMode = Idle
    /\ faults = 0
    /\ handle = "none"
    /\ closes = 0
    /\ attempt = 0
    /\ chunk = <<>>
    /\ second = NoCaller
    /\ batch = NoBatch
    /\ port = <<>>
    /\ printed = <<>>

\* before FlipperSerial(port) is called, with one Flipper connected
InitNew == InitNewSession /\ globbed = <<DefaultPort>>

\* the calls made on the session once it is closed
ClosedCall ==
    /\ fd = "None"
    /\ \/ \E path \in RemotePaths : StorageMkdir(path)
       \/ \E path \in RemotePaths : StorageStat(path)
       \/ \E path \in RemotePaths : StorageList(path)
       \/ \E local \in LocalFiles, remote \in RemotePaths : StorageWrite(local, remote)

\* the life of one session object: construction, commands, close by any of
\* its three routes, and calls made after the close
NextSession ==
    \/ \E given \in {<<>>, DefaultPort}, opened, configured \in BOOLEAN :
           Open(given, opened, configured)
    \/ DrainReturn
    \/ Interrupt
    \/ CommandStep
    \/ \E c \in Commands : SendCommand(c)
    \/ ClosedCall
    \/ Close
    \/ Exit
    \/ Del
    \/ DevLine
    \/ DevEmit

SessionSpec == InitNew /\ [][NextSession]_vars

\* ---------------------------------------------------------- port discovery
\* The constructor called with or without a port while zero to three Flippers
\* are connected; glob.glob returns their paths in an order of its own.
PortNames ==
    {PORT_PREFIX \o <<"B">>, PORT_PREFIX \o <<"B", "2">>, PORT_PREFIX \o <<"a">>}
Enumerations ==
    {e \in UNION {[1..n -> PortNames] : n \in 0..Cardinality(PortNames)} :
        \A i, j \in 1..Len(e) : e[i] = e[j] => i = j}

\* a port named by the caller, none of the candidates
GivenPort == <<"/", "d", "e", "v", "/", "c", "u", ".", "x">>

InitDetect == InitNewSession /\ globbed \in Enumerations

NextDetect ==
    \/ \E given \in {<<>>, GivenPort}, opened, configured \in BOOLEAN :
           Open(given, opened, configured)
    \/ ReadUntilPrompt
    \/ DrainReturn
    \/ DevLine
    \/ DevEmit

DetectSpec == InitDetect /\ [][NextDetect]_vars

\* ------------------------------------------------------------ upload_files
\* upload_files of deploy.py: the loop over the (local_path, remote_path)
\* pairs that calls storage_write, with one retry per file.
Uploads ==
    <<[local |-> [isfile |-> TRUE, content |-> FileOfLen(1000)],
       remote |-> <<"/", "e", "/", "a">>],
      [local |-> [isfile |-> TRUE, content |-> FileOfLen(512)],
       remote |-> <<"/", "e", "/", "a", " ", "b">>]>>

\* except (TimeoutError, OSError, RuntimeError); FileNotFoundError is an OSError
RetryErrors == {"TimeoutError", "OSError", "RuntimeError", "FileNotFoundError"}

\* a retry that goes straight to storage_write
NeedsRecoveryNever(a) == FALSE
\* if attempt > 0: the recovery sequence comes first
NeedsRecovery(a) == a > 0

\* head of the loop over the uploads: return, count a dry run, or make the
\* first attempt of the file
UploadFilesNext ==
    /\ batch.pc = "file"
    /\ pc = "idle"
    /\ IF batch.i > Len(batch.uploads)
       THEN /\ batch' = [batch EXCEPT !.pc = "returned"]
            /\ UNCHANGED <<sessionvars, rx, devvars, second>>
       ELSE IF batch.dry_run
       THEN /\ batch' = [batch EXCEPT !.success = @ + 1, !.i = @ + 1]
            /\ UNCHANGED <<sessionvars, rx, devvars, second>>
       ELSE /\ StorageWriteBody(batch.uploads[batch.i].local, batch.uploads[batch.i].remote)
            /\ batch' = [batch EXCEPT !.pc = "wait", !.attempt = 0,
                                      !.last_err = "none", !.acked = 0,
                                      !.trace = <<"storage_write">>]

\* storage_write has returned or raised: count the file, or start the second
\* attempt with tcflush(TCIOFLUSH) and the first pause of the recovery
UploadFilesOutcome ==
    /\ batch.pc = "wait"
    /\ pc = "idle"
    /\ IF result.status = "ok"
       THEN /\ batch' = [batch EXCEPT !.success = @ + 1, !.i = @ + 1, !.pc = "file"]
            /\ UNCHANGED rx
       ELSE IF result.status \in RetryErrors
       THEN IF batch.attempt = 0
            THEN IF NeedsRecovery(batch.attempt + 1)
                 THEN /\ batch' = [batch EXCEPT !.attempt = 1,
                                                !.last_err = result.status,
                                                !.acked = offset,
                                                !.trace = @ \o <<"tcflush", "sleep">>,
                                                !.pc = "recover"]
                      /\ rx' = <<>>
                 ELSE /\ batch' = [batch EXCEPT !.attempt = 1,
                                                !.last_err = result.status,
                                                !.acked = offset,
                                                !.pc = "retry"]
                      /\ UNCHANGED rx
            ELSE /\ batch' = [batch EXCEPT !.failed = @ + 1, !.i = @ + 1,
                                           !.pc = "file"]
                 /\ UNCHANGED rx
       ELSE /\ batch' = [batch EXCEPT !.failed = @ + (Len(batch.uploads) - batch.i),
                                      !.pc = "returned"]
            /\ UNCHANGED rx
    /\ UNCHANGED <<sessionvars, devvars, second>>

\* os.write(flipper.fd, b"\r\n") and the second pause
UploadFilesRecover ==
    /\ batch.pc = "recover"
    /\ devin' = devin \o CRLF
    /\ batch' = [batch EXCEPT !.trace = @ \o <<"write", "sleep">>, !.pc = "flush"]
    /\ UNCHANGED <<sessionvars, rx, out, devMode, faults, second>>

\* tcflush(TCIFLUSH) after the pause
UploadFilesFlush ==
    /\ batch.pc = "flush"
    /\ rx' = <<>>
    /\ batch' = [batch EXCEPT !.trace = @ \o <<"tcflush">>, !.pc = "retry"]
    /\ UNCHANGED <<sessionvars, devvars, second>>

\* the second storage_write of the file
UploadFilesRetry ==
    /\ batch.pc = "retry"
    /\ StorageWriteBody(batch.uploads[batch.i].local, batch.uploads[batch.i].remote)
    /\ batch' = [batch EXCEPT !.trace = @ \o <<"storage_write">>, !.pc = "wait"]

\* upload_files is called on an open session, for real or as a dry run
InitUpload ==
    /\ InitSession
    /\ \E dry \in BOOLEAN :
           batch = [NoBatch EXCEPT !.pc = "file", !.i = 1, !.dry_run = dry,
                                   !.uploads = Uploads]

NextUpload ==
    \/ UploadFilesNext
    \/ UploadFilesOutcome
    \/ UploadFilesRecover
    \/ UploadFilesFlush
    \/ UploadFilesRetry
    \/ ReadUntilPrompt
    \/ EnsurePromptReturn
    \/ Declare
    \/ ReadyPoll
    \/ SendData
    \/ AckPoll
    \/ AckCheck
    \/ Interrupt
    \/ DevLine
    \/ DevData
    \/ DevEmit

UploadSpec == InitUpload /\ [][NextUpload]_vars

\* -------------------------------------------------------- storage commands
\* The storage calls of a deployment on an open session, in the order of
\* main() of deploy.py: the directories are made, then files are written.
TwoChunkFile == [isfile |-> TRUE, content |-> FileOfLen(1000)]

\* create_flipper_dirs: one storage_mkdir per directory, each tried whatever
\* became of the one before; it runs before the first upload
CreateFlipperDirs(path) ==
    /\ op \in {"none", "storage_mkdir"}
    /\ StorageMkdir(path)

NextStorage ==
    \/ \E path \in RemotePaths : CreateFlipperDirs(path)
    \/ \E remote \in RemotePaths : StorageWrite(TwoChunkFile, remote)
    \/ CommandStep
    \/ Declare
    \/ ReadyPoll
    \/ SendData
    \/ AckPoll
    \/ AckCheck
    \/ DevLine
    \/ DevData
    \/ DevEmit

StorageSpec == Init /\ [][NextStorage]_vars

\* -------------------------------------------------------- response parsing
\* One call of send_command, directly or through mkdir, stat or list, taken at
\* the point where its command line has been written and the device has
\* answered: the bytes of the answer wait at the port, whole or with their
\* tail still to come.
INFO == <<"i", "n", "f", "o">>
ParsePath == <<"/", "e", "/", "a">>
ParseCalls ==
    {[op |-> "send_command", cmd |-> INFO],
     [op |-> "storage_mkdir", cmd |-> STORAGE_MKDIR \o Quote(ParsePath)],
     [op |-> "storage_stat", cmd |-> STORAGE_STAT \o ParsePath],
     [op |-> "storage_list", cmd |-> STORAGE_LIST \o ParsePath]}

SGR0 == <<ESC, "[", "0", "m">>
\* what stands in front of the echo: nothing, the prompt on a line of its own,
\* or text the device had left on the line before it printed the prompt
Leads == {<<>>, PromptText, <<"o", "k">> \o CLI_PROMPT_BYTES}
\* the echo of the command: none, plain, or with insert-mode toggles
EchoForms(c) == {<<>>, c \o CRLF, Echo(c)}
NotFoundText ==
    STORAGE_ERROR \o <<":", " ", "f", "i", "l", "e", " ", "n", "o", "t", " ",
                       "f", "o", "u", "n", "d">> \o CRLF
ColouredErrorText ==
    <<"S", "t", "o", "r", "a", "g", "e", " ">> \o SGR0
        \o <<"e", "r", "r", "o", "r", ":", " ", "x">> \o CRLF
DirLine == <<"\t", "[", "D", "]", " ", "n", "f", "c">> \o CRLF
FileLine ==
    <<"\t", "[", "F", "]", " ", "m", "y", " ", "f", ".", "n", "f", "c", " ",
      "1", "2", "b">> \o CRLF
NoteLine == <<"n", "o", "t", "e">> \o CRLF
Bodies ==
    {<<>>, OutputText, ErrorText, NotFoundText, ColouredErrorText,
     DirLine \o FileLine, FileLine \o NoteLine \o DirLine \o ErrorText}
\* the prompt that ends the answer: plain, or with a colour reset inside it
Tails == {PromptText, CRLF \o <<">", ":">> \o SGR0 \o <<" ">>}
Answers(c) ==
    {lead \o echo \o body \o tail :
        lead \in Leads, echo \in EchoForms(c), body \in Bodies, tail \in Tails}
\* where the answer is cut when its tail arrives later: nowhere, or two bytes
\* before its end, which lies inside the prompt or its control sequence
Cuts(answer) == {Len(answer), Len(answer) - 2}

InitParse ==
    /\ fd = "open"
    /\ \E call \in ParseCalls :
           /\ op = call.op
           /\ cmd = call.cmd
           /\ \E answer \in Answers(call.cmd) : \E k \in Cuts(answer) :
                  /\ rx = SubSeq(answer, 1, k)
                  /\ out = IF k = Len(answer) THEN <<>>
                           ELSE <<SubSeq(answer, k + 1, Len(answer))>>
    /\ pc = "cmdread"
    /\ ret = "cmdwrite"
    /\ rup = "run"
    /\ remaining = CommandSlices
    /\ data = <<>>
    /\ file_data = <<>>
    /\ remote_path = <<>>
    /\ offset = 0
    /\ chunk_num = 0
    /\ ready_data = <<>>
    /\ resp_data = <<>>
    /\ result = NoResult
    /\ ops = 1
    /\ log = <<Wr(CRLF), Wr(cmd \o CRLF)>>
    /\ reads = TRUE
    /\ devin = <<>>
    /\ devMode = Idle
    /\ faults = 0
    /\ handle = "open"
    /\ closes = 0
    /\ attempt = 0
    /\ chunk = <<>>
    /\ second = NoCaller
    /\ batch = NoBatch
    /\ port = DefaultPort
    /\ globbed = <<DefaultPort>>
    /\ printed = <<>>

NextParse ==
    \/ ReadUntilPrompt
    \/ CommandReturn
    \/ DevEmit

ParseSpec == InitParse /\ [][NextParse]_vars

\* ------------------------------------------------------- chunk handshake
\* One storage_write taken at the point where the quiescence step is over and
\* the first chunk-declare command has been written: the device has echoed the
\* line, and its answer (Ready, or a storage error and the prompt) has arrived
\* with the echo or is still to come.
READY_PATH == <<"/", "e", "/">> \o READY
LongNameLen == 220
\* a destination whose declare command is longer than the snippet of a timeout
LONG_PATH == <<"/", "e", "/">> \o [i \in 1..LongNameLen |-> "n"]
ChunkPaths == {<<"/", "e", "/", "a">>, READY_PATH, LONG_PATH}
ChunkFiles == {FileOfLen(512), FileOfLen(1000)}

\* what the shell answers to the declare command c of n bytes, and the mode it
\* is in afterwards
HandshakeAnswers(c, n) ==
    {[text |-> Echo(c) \o READY \o CRLF, later |-> <<>>, mode |-> Await(n)],
     [text |-> Echo(c) \o ErrorText, later |-> <<PromptText>>, mode |-> Idle]}
\* how much of the answer has arrived: all of it, or the echo alone
HandshakeCuts(c, answer) == {Len(answer.text), Len(Echo(c))}

InitChunk ==
    /\ fd = "open"
    /\ op = "storage_write"
    /\ pc = "ready"
    /\ ret = "declare"
    /\ rup = "off"
    /\ remaining = ReadySlices
    /\ data = <<>>
    /\ cmd = <<>>
    /\ file_data \in ChunkFiles
    /\ remote_path \in ChunkPaths
    /\ offset = 0
    /\ chunk_num = 0
    /\ ready_data = <<>>
    /\ resp_data = <<>>
    /\ result = NoResult
    /\ ops = 1
    /\ log = <<Wr(CRLF), Wr(DeclareBytes)>>
    /\ reads = TRUE
    /\ devin = <<>>
    /\ \E answer \in HandshakeAnswers(DeclareCmd, ChunkSize) :
       \E k \in HandshakeCuts(DeclareCmd, answer) :
           /\ rx = SubSeq(answer.text, 1, k)
           /\ out = (IF k = Len(answer.text) THEN <<>>
                     ELSE <<SubSeq(answer.text, k + 1, Len(answer.text))>>)
                        \o answer.later
           /\ devMode = answer.mode
           /\ faults = IF answer.mode = Idle THEN 1 ELSE 0
    /\ handle = "open"
    /\ closes = 0
    /\ attempt = 0
    /\ chunk = <<>>
    /\ second = NoCaller
    /\ batch = NoBatch
    /\ port = DefaultPort
    /\ globbed = <<DefaultPort>>
    /\ printed = <<>>

NextChunk ==
    \/ Declare
    \/ ReadyPoll
    \/ SendData
    \/ AckPoll
    \/ AckCheck
    \/ DevLine
    \/ DevData
    \/ DevEmit

ChunkSpec == InitChunk /\ [][NextChunk]_vars

\* ---------------------------------------------------------- storage queries
\* storage_stat and storage_list called on an open session, for a path
\* without and a path with a space
NextQuery ==
    \/ \E path \in RemotePaths : StorageStat(path)
    \/ \E path \in RemotePaths : StorageList(path)
    \/ CommandStep
    \/ DevLine
    \/ DevEmit

QuerySpec == Init /\ [][NextQuery]_vars

\* ------------------------------------------------------------------ deploy
\* main() of deploy.py from the point where the session is open: the list of
\* directories is collected from the uploads, create_flipper_dirs makes them
\* one by one, then upload_files runs; in a dry run both only print.
EXT == <<"/", "e", "x", "t">>
\* FLIPPER_DIRS, in the order of the source
FLIPPER_DIRS ==
    <<<<"/", "e", "x", "t", "/", "i", "n", "f", "r", "a", "r", "e", "d">>,
      <<"/", "e", "x", "t", "/", "b", "a", "d", "u", "s", "b">>,
      <<"/", "e", "x", "t", "/", "n", "f", "c">>,
      <<"/", "e", "x", "t", "/", "n", "f", "c", "/", "a", "m", "i", "i", "b", "o">>,
      <<"/", "e", "x", "t", "/", "s", "u", "b", "g", "h", "z">>,
      <<"/", "e", "x", "t", "/", "a", "p", "p", "s", "_", "d", "a", "t", "a", "/", "m",
      "u", "s", "i", "c", "_", "p", "l", "a", "y", "e", "r">>,
      <<"/", "e", "x", "t", "/", "a", "p", "p", "s", "/", "N", "F", "C">>,
      <<"/", "e", "x", "t", "/", "a", "p", "p", "s", "/", "S", "u", "b", "-", "G", "H",
      "z">>,
      <<"/", "e", "x", "t", "/", "a", "p", "p", "s", "/", "I", "n", "f", "r", "a", "r",
      "e", "d">>,
      <<"/", "e", "x", "t", "/", "a", "p", "p", "s", "/", "M", "e", "d", "i", "a">>,
      <<"/", "e", "x", "t", "/", "a", "p", "p", "s", "/", "U", "S", "B">>>>

\* index of the last "/" of s, 0 if it has none
LastSlash(s) ==
    IF Positions(s, "/") = {} THEN 0
    ELSE CHOOSE i \in Positions(s, "/") : \A j \in Positions(s, "/") : j <= i
\* s.rsplit("/", 1)[0]
RSplitHead(s) == IF LastSlash(s) = 0 THEN s ELSE SubSeq(s, 1, LastSlash(s) - 1)
\* the while loop over one destination's parent: the directories it adds
RECURSIVE ParentChain(_)
ParentChain(parent) ==
    IF parent = <<>> \/ parent = EXT THEN {}
    ELSE {parent} \cup ParentChain(IF LastSlash(parent) > 1 THEN RSplitHead(parent)
                                   ELSE <<>>)
\* a collection that adds nothing for the uploads
ParentDirsNone(uploads) == {}
\* the for loop over the uploads: every directory above every destination
ParentDirs(uploads) ==
    UNION {ParentChain(RSplitHead(uploads[i].remote)) : i \in 1..Len(uploads)}
\* sorted(dirs) of a set of str
SortedSet(dirs) ==
    LET rank(x) == Cardinality({y \in dirs : StrLeq(y, x)})
    IN [i \in 1..Cardinality(dirs) |-> CHOOSE x \in dirs : rank(x) = i]
collect_required_dirs(uploads) ==
    SortedSet({FLIPPER_DIRS[i] : i \in 1..Len(FLIPPER_DIRS)} \cup ParentDirs(uploads))

\* the uploads of a deployment: an infrared file alone; an amiibo file in a
\* series directory and an app; these and a music file
SmallFile == [isfile |-> TRUE, content |-> FileOfLen(8)]
IR_FILE ==
    <<"/", "e", "x", "t", "/", "i", "n", "f", "r", "a", "r", "e", "d", "/", "t", "v",
    ".", "i", "r">>
AMIIBO_FILE ==
    <<"/", "e", "x", "t", "/", "n", "f", "c", "/", "a", "m", "i", "i", "b", "o", "/",
    "z", "e", "l", "d", "a", "/", "l", "i", "n", "k", ".", "n", "f", "c">>
APP_FILE ==
    <<"/", "e", "x", "t", "/", "a", "p", "p", "s", "/", "N", "F", "C", "/", "x", ".",
    "f", "a", "p">>
MUSIC_FILE ==
    <<"/", "e", "x", "t", "/", "a", "p", "p", "s", "_", "d", "a", "t", "a", "/", "m",
    "u", "s", "i", "c", "_", "p", "l", "a", "y", "e", "r", "/", "a", ".", "f", "m",
    "f">>
Upload(remote) == [local |-> SmallFile, remote |-> remote]
DeployUploads ==
    {<<Upload(IR_FILE)>>,
     <<Upload(AMIIBO_FILE), Upload(APP_FILE)>>,
     <<Upload(MUSIC_FILE), Upload(AMIIBO_FILE), Upload(APP_FILE)>>}

\* dirs = collect_required_dirs(uploads)
CollectRequiredDirs ==
    /\ batch.pc = "collect"
    /\ batch' = [batch EXCEPT !.dirs = collect_required_dirs(batch.uploads),
                              !.d = 1, !.pc = "mkdir"]
    /\ UNCHANGED <<sessionvars, rx, devvars, second>>

\* head of the loop of create_flipper_dirs: print in a dry run, call
\* storage_mkdir otherwise; after the last directory main calls upload_files
CreateFlipperDirsNext ==
    /\ batch.pc = "mkdir"
    /\ pc = "idle"
    /\ IF batch.d > Len(batch.dirs)
       THEN /\ batch' = [batch EXCEPT !.pc = "file", !.i = 1]
            /\ UNCHANGED <<sessionvars, rx, devvars, second>>
       ELSE IF batch.dry_run
       THEN /\ batch' = [batch EXCEPT !.d = @ + 1]
            /\ UNCHANGED <<sessionvars, rx, devvars, second>>
       ELSE /\ SendCommandBody("storage_mkdir",
                            STORAGE_MKDIR \o Quote(batch.dirs[batch.d]))
            /\ batch' = [batch EXCEPT !.pc = "mkwait"]

\* storage_mkdir has returned or raised: TimeoutError and OSError are printed
\* and the loop goes on; anything else leaves main
CreateFlipperDirsOutcome ==
    /\ batch.pc = "mkwait"
    /\ pc = "idle"
    /\ batch' = [batch EXCEPT
           !.issued = IF \E k \in 1..Len(log) : log[k] = Wr(cmd \o CRLF)
                      THEN Append(@, cmd) ELSE @,
           !.d = IF result.status \in {"ok", "TimeoutError", "OSError"} THEN @ + 1 ELSE @,
           !.pc = IF result.status \in {"ok", "TimeoutError", "OSError"} THEN "mkdir"
                  ELSE "exit"]
    /\ UNCHANGED <<sessionvars, rx, devvars, second>>

\* the device has done what it could with the bytes it was sent: it is never
\* more than one call of the deployment behind
DeviceSettled ==
    /\ out = <<>>
    /\ IF devMode.m = "idle" THEN Positions(devin, "\r") = {} ELSE devin = <<>>

InitDeploy ==
    /\ InitSession
    /\ \E dry \in BOOLEAN, uploads \in DeployUploads :
           batch = [NoBatch EXCEPT !.pc = "collect", !.dry_run = dry,
                                   !.uploads = uploads]

NextDeploy ==
    \/ CollectRequiredDirs
    \/ DeviceSettled /\ CreateFlipperDirsNext
    \/ CreateFlipperDirsOutcome
    \/ DeviceSettled /\ UploadFilesNext
    \/ UploadFilesOutcome
    \/ UploadFilesRecover
    \/ UploadFilesFlush
    \/ DeviceSettled /\ UploadFilesRetry
    \/ CommandStep
    \/ Declare
    \/ ReadyPoll
    \/ SendData
    \/ AckPoll
    \/ AckCheck
    \/ Interrupt
    \/ DevLine
    \/ DevData
    \/ DevEmit

DeploySpec == InitDeploy /\ [][NextDeploy]_vars

\* ------------------------------------------------------------- properties
IsDeclare(e) == e.t = "write" /\ StartsWith(e.b, STORAGE_WRITE_CHUNK)
IsData(e) == e.t = "write" /\ e.b # CRLF /\ ~StartsWith(e.b, STORAGE_WRITE_CHUNK)
IsDigit(c) == c \in DigitSet
\* the size a chunk-declare command names: the digits of its last argument
SizeOf(e) == ParseInt(SelectSeq(SubSeq(e.b, LastSpace(e.b) + 1, Len(e.b)), IsDigit))
Declares == SelectSeq(log, IsDeclare)
Blocks == SelectSeq(log, IsData)
RECURSIVE SumSizes(_)
SumSizes(ds) == IF ds = <<>> THEN 0 ELSE SizeOf(Head(ds)) + SumSizes(Tail(ds))
RECURSIVE ConcatBlocks(_)
ConcatBlocks(bs) == IF bs = <<>> THEN <<>> ELSE Head(bs).b \o ConcatBlocks(Tail(bs))
CeilDiv(a, b) == (a + b - 1) \div b

UploadSucceeded ==
    op = "storage_write" /\ pc = "idle" /\ result.status = "ok" /\ Len(file_data) > 0

\* C1: a successful upload of L > 0 bytes has issued exactly ceil(L/512)
\* chunk-declare commands whose sizes sum to L, and no declare command of any
\* upload, finished or not, names a size outside 1..512.
C1_ChunkCount ==
    /\ \A i \in 1..Len(Declares) :
           SizeOf(Declares[i]) >= 1 /\ SizeOf(Declares[i]) <= WRITE_CHUNK_MAX
    /\ UploadSucceeded =>
           /\ Len(Declares) = CeilDiv(Len(file_data), WRITE_CHUNK_MAX)
           /\ SumSizes(Declares) = Len(file_data)

C1_Witness ==
    UploadSucceeded /\ Len(file_data) = 1000 /\ Len(Declares) = 2

\* C2: after a successful upload the data blocks written, in order, are the
\* consecutive 512-byte slices of the payload (the last one shorter), each of
\* the size its declare command named, and their concatenation is the payload.
C2_BlocksArePayload ==
    UploadSucceeded =>
        /\ Len(Blocks) = Len(Declares)
        /\ ConcatBlocks(Blocks) = file_data
        /\ \A k \in 1..Len(Blocks) :
               Blocks[k].b = SubSeq(file_data, WRITE_CHUNK_MAX * (k - 1) + 1,
                                    WRITE_CHUNK_MAX * (k - 1) + SizeOf(Declares[k]))

C2_Witness ==
    /\ UploadSucceeded
    /\ Len(file_data) = 1000
    /\ Len(Blocks) = 2
    /\ Len(Blocks[1].b) = 512
    /\ Len(Blocks[2].b) = 488

\* C3: a storage_write of an empty file on an open session returns success in
\* one step that writes nothing, reads nothing, flushes nothing and leaves the
\* handle, the port and the device as they were.
C3_EmptyUploadNoIO ==
    [][(/\ ops' = ops + 1
        /\ op' = "storage_write"
        /\ fd = "open"
        /\ file_data' = <<>>
        /\ result'.status # "FileNotFoundError")
       => (/\ result' = Ok(<<>>)
           /\ pc' = "idle"
           /\ log' = <<>>
           /\ ~reads'
           /\ UNCHANGED <<fd, rx, devin, out, devMode, faults>>)]_vars

C3_Witness ==
    /\ op = "storage_write"
    /\ pc = "idle"
    /\ fd = "open"
    /\ result = Ok(<<>>)
    /\ file_data = <<>>
    /\ log = <<>>


ReadySeen == Contains(strip_ansi(ready_data), READY)
ReadyErrSeen == Contains(Decode(strip_ansi(ready_data)), STORAGE_ERROR)
AckPromptSeen == Contains(strip_ansi(resp_data), CLI_PROMPT_BYTES)
AckErrSeen == Contains(Decode(strip_ansi(resp_data)), STORAGE_ERROR)
UploadEnded == op = "storage_write" /\ pc = "idle" /\ log # <<>>
\* the upload ended in the acknowledgement phase: its last write is chunk data
EndedAfterData == UploadEnded /\ IsData(log[Len(log)])

\* C4: when an upload ends in the acknowledgement phase and the de-ANSI'd text
\* read since the data was written holds the storage error marker, the result
\* is the storage error carrying that text, with or without a prompt in it.
C4_AckErrorIsStorageError ==
    (EndedAfterData /\ AckErrSeen) =>
        /\ result.status = "RuntimeError"
        /\ result.detail = Decode(strip_ansi(resp_data))

C4_Witness ==
    /\ EndedAfterData
    /\ AckErrSeen
    /\ ~AckPromptSeen
    /\ result.status = "RuntimeError"

\* C5 (as claimed): once the handshake text holds the storage error marker and
\* no Ready, the caller's next step is to fail with the storage error.
C5_FailsImmediately ==
    [][(/\ pc = "ready"
        /\ ReadyErrSeen
        /\ ~ReadySeen
        /\ clientvars' # clientvars)
       => (pc' = "idle" /\ result'.status = "RuntimeError")]_vars

\* C6: when an upload ends with neither Ready nor the storage error marker in
\* the de-ANSI'd handshake text of its last declare command, the result is the
\* timeout and that chunk's data was not written.
C6_HandshakeTimeout ==
    (UploadEnded /\ Declares # <<>> /\ ~ReadySeen /\ ~ReadyErrSeen) =>
        /\ result.status = "TimeoutError"
        /\ remaining = 0
        /\ IsDeclare(log[Len(log)])
        /\ Len(Blocks) = Len(Declares) - 1

C6_Witness ==
    /\ UploadEnded
    /\ Len(Declares) = 2
    /\ ~ReadySeen
    /\ ~ReadyErrSeen
    /\ result.status = "TimeoutError"
    /\ Len(Blocks) = 1

CommandEnded == op = "send_command" /\ pc = "idle" /\ log # <<>>

\* C7: every send_command on an open session comes to an end, and when the
\* bytes read for the response hold no prompt it ends with the timeout, never
\* with a returned text.
C7_CommandTimesOut ==
    /\ [](op = "send_command" /\ pc # "idle" => <>(pc = "idle"))
    /\ [](CommandEnded /\ ~Contains(data, CLI_PROMPT_BYTES)
              => result.status = "TimeoutError")

C7_Witness ==
    /\ CommandEnded
    /\ data # <<>>
    /\ ~Contains(data, CLI_PROMPT_BYTES)
    /\ result.status = "TimeoutError"

Wrote(e) == op = "storage_write" /\ Len(log') = Len(log) + 1 /\ log' = Append(log, e)

\* C8: chunk data is written only right after its declare command and with
\* Ready in the de-ANSI'd handshake text; a declare command after the first is
\* written only right after the previous chunk's data and with the prompt in
\* the de-ANSI'd acknowledgement text.
C8_TwoPhase ==
    [][LET e == log'[Len(log')] IN
       /\ (Wrote(e) /\ IsData(e)) =>
              /\ IsDeclare(log[Len(log)])
              /\ ReadySeen
       /\ (Wrote(e) /\ IsDeclare(e) /\ Declares # <<>>) =>
              /\ IsData(log[Len(log)])
              /\ AckPromptSeen]_vars

C8_Witness ==
    /\ op = "storage_write"
    /\ pc = "ready"
    /\ Len(Declares) = 2
    /\ Len(Blocks) = 1
    /\ AckPromptSeen

\* C9: every declare command written ends with one carriage return, holds no
\* other carriage return and no line feed, and the write that follows it is
\* the raw payload slice of exactly the declared size.
C9_DeclareThenRawData ==
    \A i \in 1..Len(log) : IsDeclare(log[i]) =>
        /\ log[i].b[Len(log[i].b)] = "\r"
        /\ Positions(log[i].b, "\r") = {Len(log[i].b)}
        /\ Positions(log[i].b, "\n") = {}
        /\ i < Len(log) =>
              LET before == SumSizes(SelectSeq(SubSeq(log, 1, i - 1), IsDeclare))
              IN /\ IsData(log[i + 1])
                 /\ Len(log[i + 1].b) = SizeOf(log[i])
                 /\ log[i + 1].b = SubSeq(file_data, before + 1, before + SizeOf(log[i]))

C9_Witness ==
    /\ Len(Declares) = 2
    /\ Len(Blocks) = 2
    /\ SizeOf(Declares[2]) = 488
    /\ Len(Blocks[2].b) = 488

\* the device sits at a fresh prompt: nothing left to parse, nothing left to
\* send, no chunk data awaited, and nothing unread at the client's port
Quiescent ==
    /\ SelectSeq(devin, NotLF) = <<>>
    /\ out = <<>>
    /\ rx = <<>>
    /\ devMode = Idle

\* C10 (as claimed): whenever a command or an upload has ended, with success or
\* with an error, the device is at a fresh prompt and no output is unread.
C10_QuiescentAfterOp ==
    (pc = "idle" /\ op \in {"send_command", "storage_write"} /\ fd = "open")
        => Quiescent

\* an ANSI CSI sequence (ESC [ parameters letter) occurs in s
HasCsi(s) == \E i \in 1..Len(s) : s[i] = ESC /\ CsiLast(s, i) > 0

\* C11 (as claimed): when a send_command whose command holds no prompt sentinel
\* returns a text for raw bytes that end with the prompt, that text holds
\* neither the prompt sentinel nor an ANSI CSI sequence.
C11_ResponseClean ==
    (/\ CommandEnded
     /\ result.status = "ok"
     /\ ~Contains(cmd, CLI_PROMPT_BYTES)
     /\ LastN(data, Len(CLI_PROMPT_BYTES)) = CLI_PROMPT_BYTES)
        => /\ ~Contains(result.detail, CLI_PROMPT_BYTES)
           /\ ~HasCsi(result.detail)

SessionOps == {"send_command", "storage_mkdir", "storage_stat", "storage_list", "storage_write"}

\* C12: on a session without a descriptor every call of send_command, mkdir,
\* stat, list or storage_write ends at once with the closed-session OSError: it
\* writes nothing, reads nothing, flushes nothing and leaves the port, the
\* device and the descriptor as they were; and a session is without a
\* descriptor after each of close, __exit__ and __del__.
C12_ClosedSessionFails ==
    /\ [](op \in {"close", "__exit__", "__del__"} => fd = "None")
    /\ [][(fd = "None" /\ ops' = ops + 1 /\ op' \in SessionOps)
          => (/\ result' = Raise("OSError", <<>>)
              /\ pc' = pc
              /\ log' = <<>>
              /\ ~reads'
              /\ UNCHANGED <<fd, rx, devin, out, devMode, faults, handle, closes>>)]_vars

C12_Witness ==
    /\ op = "storage_list"
    /\ fd = "None"
    /\ closes = 1
    /\ result.status = "OSError"
    /\ log = <<>>

CloseOps == {"close", "__exit__", "__del__"}

IsTerminator(e) == e = Wr(CRLF)
\* _drain_banner has been entered
Opening ==
    /\ op = "__init__"
    /\ \/ pc \in {"drain", "idle"}
       \/ pc = "unbound" /\ result.status \in {"TimeoutError", "KeyboardInterrupt"}
OpenSucceeded == op = "__init__" /\ pc = "idle"
OpenTimedOut == op = "__init__" /\ pc = "unbound" /\ result.status = "TimeoutError"

\* bytes other than line terminators have been written to the port
CommandBytes ==
    \/ \E i \in 1..Len(devin) : devin[i] \notin {"\r", "\n"}
    \/ \E i \in 1..Len(log) : log[i].t = "write" /\ log[i].b # CRLF

\* C14: while the session is being opened the port sees at most two bare line
\* terminators and nothing else, each right after a flush of the input buffer;
\* the second one is written only when the first read timed out; the
\* constructor returns only with the prompt in the bytes of its latest read
\* loop, and it fails with the timeout only after two attempts that both ended
\* without the prompt; the first operation starts only on a session whose
\* constructor returned.
C14_DrainTwice ==
    /\ [](Opening =>
              /\ log \in {<<Fl, Wr(CRLF)>>, <<Fl, Wr(CRLF), Fl, Wr(CRLF)>>}
              /\ Len(SelectSeq(log, IsTerminator)) = attempt + 1
              /\ attempt \in {0, 1})
    /\ [](OpenSucceeded => Contains(data, CLI_PROMPT_BYTES) /\ fd = "open")
    /\ [](OpenTimedOut =>
              /\ attempt = 1
              /\ ~Contains(data, CLI_PROMPT_BYTES)
              /\ fd = "None")
    /\ [][attempt' # attempt =>
              /\ pc = "drain"
              /\ rup = "timeout"
              /\ ~Contains(data, CLI_PROMPT_BYTES)
              /\ log' = log \o <<Fl, Wr(CRLF)>>
              /\ rx' = <<>>]_vars
    /\ [](CommandBytes => ops >= 1)
    /\ [][(ops' # ops /\ op' \in SessionOps /\ fd = "open")
              => (pc = "idle" /\ (ops = 0 => OpenSucceeded))]_vars

\* the constructor returned on its second attempt
C14_Witness ==
    /\ OpenSucceeded
    /\ attempt = 1
    /\ log = <<Fl, Wr(CRLF), Fl, Wr(CRLF)>>
    /\ Contains(data, CLI_PROMPT_BYTES)

\* C15 (as claimed): whenever the constructor has been left by an exception,
\* of whatever kind, and whenever a with block has been left, the descriptor is
\* not open and the session holds none.
C15_ReleasedOnEveryExit ==
    /\ pc = "unbound" => (handle # "open" /\ fd = "None")
    /\ op = "__exit__" => (handle # "open" /\ fd = "None")

\* C16: _read_until_prompt returns normally only with the prompt in its
\* accumulator, also when the prompt arrived in two reads neither of which
\* holds it; it goes on reading only while the accumulator holds no prompt, so
\* the read that completes the prompt is its last; and it raises the timeout
\* only with the deadline passed and no prompt in the accumulator.
C16_ReturnsOnPrompt ==
    /\ [](rup = "ret" => Contains(data, CLI_PROMPT_BYTES))
    /\ [](rup = "run" => ~Contains(data, CLI_PROMPT_BYTES))
    /\ [](rup = "timeout" => (~Contains(data, CLI_PROMPT_BYTES) /\ remaining = 0))
    /\ [][(rup = "run" /\ data' # data /\ Contains(data', CLI_PROMPT_BYTES))
              => (rup' = "ret" /\ data' = data \o chunk')]_vars

\* the prompt came in two reads: the latest one alone does not hold it
C16_Witness ==
    /\ rup = "ret"
    /\ Contains(data, CLI_PROMPT_BYTES)
    /\ chunk # <<>>
    /\ ~Contains(chunk, CLI_PROMPT_BYTES)
    /\ data = Banner \o CRLF \o CLI_PROMPT_BYTES

\* C17 (as claimed): the two callers are never both inside an operation on the
\* session: while one call is in flight the other has not started its exchange.
C17_OneInFlight == ~(pc # "idle" /\ second.pc # "idle")

\* the quiescence step ends right before position i of the log: a bare line
\* terminator, followed by a flush when its read timed out
QuiescenceBefore(i) ==
    \/ i > 1 /\ log[i - 1] = Wr(CRLF)
    \/ i > 2 /\ log[i - 1] = Fl /\ log[i - 2] = Wr(CRLF)

\* C18 (as claimed): every chunk-declare command of an upload, the first and
\* each later one, is written right after a quiescence step of its own.
C18_QuiescencePerChunk ==
    op = "storage_write" =>
        \A i \in 1..Len(log) : IsDeclare(log[i]) => QuiescenceBefore(i)

\* C19: the first write of send_command is the bare line terminator and its
\* last write is the command line ended by the line terminator, with nothing
\* between them but the flush that follows a timed-out quiescence read; such a
\* timeout leaves the call without a result, flushes the input buffer and goes
\* on to the command write; every call that has started its quiescence read
\* gets to read the response; and a call ends with a timeout only when the
\* response read found no prompt.
C19_QuiescenceNeverFails ==
    /\ [](op = "send_command" /\ pc \in {"ensure", "cmdwrite"} =>
              /\ result = NoResult
              /\ log \in {<<Wr(CRLF)>>, <<Wr(CRLF), Fl>>})
    /\ [](op = "send_command" /\ (pc = "cmdread" \/ CommandEnded) =>
              log \in {<<Wr(CRLF), Wr(cmd \o CRLF)>>, <<Wr(CRLF), Fl, Wr(cmd \o CRLF)>>})
    /\ [](CommandEnded =>
              /\ result.status \in {"ok", "TimeoutError"}
              /\ result.status = "TimeoutError" => ~Contains(data, CLI_PROMPT_BYTES))
    /\ [][(op = "send_command" /\ pc = "ensure" /\ rup = "timeout" /\ pc' # pc)
              => (/\ pc' = "cmdwrite"
                  /\ log' = Append(log, Fl)
                  /\ rx' = <<>>
                  /\ result' = NoResult)]_vars
    /\ [](op = "send_command" /\ pc = "ensure" => <>(pc = "cmdread"))

\* a command answered after its quiescence read had timed out
C19_Witness ==
    /\ CommandEnded
    /\ log = <<Wr(CRLF), Fl, Wr(cmd \o CRLF)>>
    /\ result.status = "ok"
    /\ result.detail = <<"o", "k">>

\* the lines of the de-ANSI'd text of the bytes read for the response
ResponseLines == SplitLines(Normalize(Decode(strip_ansi(data))))
NoEchoLine == \A i \in 1..Len(ResponseLines) : ~IsEcho(ResponseLines[i], cmd)
\* a line that is blank or holds the prompt alone
BlankOrPrompt(line) == Strip(line) \in {<<>>, <<">", ":">>}
\* index of the last line that is neither, 0 if there is none
LastKept(lines) ==
    LET keep == {i \in 1..Len(lines) : ~BlankOrPrompt(lines[i])}
    IN IF keep = {} THEN 0 ELSE CHOOSE i \in keep : \A j \in keep : j <= i

\* C20: a send_command whose response read found the prompt and no line that
\* matches the echo of the command returns a text and raises nothing; the text
\* is made of all the lines of the de-ANSI'd response from the first one on,
\* up to the last line that is neither blank nor the prompt alone, joined by
\* line feeds and trimmed at both ends.
C20_NoEchoFallback ==
    (CommandEnded /\ Contains(data, CLI_PROMPT_BYTES) /\ NoEchoLine) =>
        /\ result.status = "ok"
        /\ result.detail =
               Strip(Join(SubSeq(ResponseLines, 1, LastKept(ResponseLines))))

\* a response without the echo of the command that holds text of its own
C20_Witness ==
    /\ CommandEnded
    /\ result.status = "ok"
    /\ NoEchoLine
    /\ Contains(result.detail, STORAGE_ERROR)
    /\ Len(ResponseLines) > LastKept(ResponseLines)

EndsWith(s, t) == Len(s) >= Len(t) /\ SubSeq(s, Len(s) - Len(t) + 1, Len(s)) = t
\* the trimmed line equals the trimmed command or ends with it
IsEchoBySuffix(line, c) == EndsWith(Strip(line), Strip(c))
\* index of the first such line, 0 if there is none
FirstEchoBySuffix(lines, c) ==
    LET hits == {i \in 1..Len(lines) : IsEchoBySuffix(lines[i], c)}
    IN IF hits = {} THEN 0 ELSE CHOOSE i \in hits : \A j \in hits : i <= j

\* C21 (as claimed): when a line of the de-ANSI'd response, once trimmed,
\* equals the trimmed command or ends with it, the text send_command returns
\* is made of the lines after the first such line, up to the last line that is
\* neither blank nor the prompt alone.
C21_SuffixMatch ==
    (/\ CommandEnded
     /\ result.status = "ok"
     /\ FirstEchoBySuffix(ResponseLines, cmd) > 0)
        => result.detail =
               Strip(Join(SubSeq(ResponseLines,
                                 FirstEchoBySuffix(ResponseLines, cmd) + 1,
                                 LastKept(ResponseLines))))

UploadFailed == UploadEnded /\ result.status \in {"TimeoutError", "RuntimeError"}

\* C22: no chunk of an upload is declared or sent twice: at any time the
\* declare commands written are those of the acknowledged chunks and at most
\* one more, and the offset is the sum of the acknowledged sizes.  An upload
\* that has ended with a timeout or a storage error has written nothing after
\* the declare command or the data of the chunk that failed, has declared no
\* later chunk and has left the offset at that chunk's start.
C22_FailureIsTerminal ==
    /\ op = "storage_write" =>
           /\ Len(Declares) <= chunk_num + 1
           /\ Len(Declares) >= chunk_num
           /\ Len(Blocks) <= Len(Declares)
           /\ Len(Blocks) >= chunk_num
           /\ offset = SumSizes(SubSeq(Declares, 1, chunk_num))
    /\ UploadFailed =>
           /\ Len(Declares) = chunk_num + 1
           /\ IsDeclare(log[Len(log)]) \/ IsData(log[Len(log)])
           /\ IsDeclare(log[Len(log)]) => Len(Blocks) = chunk_num
           /\ offset = WRITE_CHUNK_MAX * chunk_num
           /\ offset < Len(file_data)

\* an upload of two chunks that failed on its second chunk
C22_Witness ==
    /\ UploadFailed
    /\ result.status = "RuntimeError"
    /\ chunk_num = 1
    /\ offset = 512
    /\ Len(Declares) = 2

IsPrefix(s, t) == Len(s) <= Len(t) /\ SubSeq(t, 1, Len(s)) = s
\* what upload_files does for one file at most: an attempt, the recovery
\* sequence, a second attempt
TwoAttempts ==
    <<"storage_write", "tcflush", "sleep", "write", "sleep", "tcflush",
      "storage_write">>

\* C23: for each file upload_files calls storage_write at most twice; between
\* the two calls it flushes the port, pauses, writes a bare line terminator,
\* pauses and flushes the input, in this order, and it does none of this
\* before the first call; the second attempt is started only when the first
\* ended with a timeout, an I/O error or a storage error; and the second call
\* starts the upload of the same file again at offset 0.
C23_RetryOnce ==
    /\ [](IsPrefix(batch.trace, TwoAttempts))
    /\ [](batch.attempt = 0 => Len(batch.trace) <= 1)
    /\ [](batch.attempt = 1 => (Len(batch.trace) > 1 /\ batch.last_err \in RetryErrors))
    /\ [][batch.attempt' # batch.attempt =>
              \/ batch.attempt' = 0
              \/ /\ batch.attempt = 0
                 /\ pc = "idle"
                 /\ result.status \in {"TimeoutError", "OSError", "RuntimeError",
                                       "FileNotFoundError"}
                 /\ rx' = <<>>]_vars
    /\ [][(batch.pc = "recover" /\ batch.pc' # "recover") =>
              (devin' = devin \o CRLF /\ batch.pc' = "flush")]_vars
    /\ [][(batch.pc = "flush" /\ batch.pc' # "flush") =>
              (rx' = <<>> /\ batch.pc' = "retry")]_vars
    /\ [][(batch.pc = "retry" /\ batch.pc' # "retry") =>
              /\ batch.trace' = TwoAttempts
              /\ op' = "storage_write"
              /\ file_data' = Uploads[batch.i].local.content
              /\ remote_path' = Uploads[batch.i].remote
              /\ offset' = 0
              /\ chunk_num' = 0
              /\ log' = <<Wr(CRLF)>>]_vars

\* a file whose first attempt failed and whose second attempt succeeded
C23_Witness ==
    /\ batch.trace = TwoAttempts
    /\ batch.pc = "file"
    /\ batch.success = 1
    /\ batch.failed = 0
    /\ batch.last_err = "RuntimeError"
    /\ offset = Len(Uploads[1].local.content)

\* a call of the public method `name` on an open session has returned a value
Returned(name) == op = name /\ pc = "idle" /\ log # <<>> /\ result.status = "ok"

\* C24: stat returns false exactly when the text send_command returned for
\* the stat command holds the storage error marker, and true otherwise.
C24_StatByMarker ==
    Returned("storage_stat") =>
        /\ result.detail \in {<<"True">>, <<"False">>}
        /\ (result.detail = <<"False">>)
               <=> Contains(LogicalResponse(cmd, data), STORAGE_ERROR)

\* the device answered "Storage error: file not found" after other text
C24_Witness ==
    /\ Returned("storage_stat")
    /\ result.detail = <<"False">>
    /\ Contains(data, NotFoundText)
    /\ ~StartsWith(LogicalResponse(cmd, data), STORAGE_ERROR)

\* a trimmed line of a listing that starts with the marker m and does not
\* carry the storage error marker
IsMarkerLine(line, m) == StartsWith(Strip(line), m) /\ ~Contains(line, STORAGE_ERROR)
\* what follows the marker on the line
AfterMarker(line) == Strip(SubSeq(Strip(line), Len(DIR_MARK) + 1, Len(Strip(line))))
\* index at which the last whitespace-delimited token of s starts
LastTokenStart(s) ==
    CHOOSE k \in 1..Len(s) :
        /\ \A j \in k..Len(s) : s[j] \notin Whitespace
        /\ k = 1 \/ s[k - 1] \in Whitespace
\* the entry a marker line stands for
EntryOf(line) ==
    IF IsMarkerLine(line, DIR_MARK) THEN <<<<AfterMarker(line), "dir">>>>
    ELSE IF IsMarkerLine(line, FILE_MARK)
    THEN <<<<Strip(SubSeq(AfterMarker(line), 1, LastTokenStart(AfterMarker(line)) - 1)),
             "file">>>>
    ELSE <<>>
EntriesOf(response) ==
    Cat([i \in 1..Len(SplitLines(response)) |-> EntryOf(SplitLines(response)[i])],
        1, Len(SplitLines(response)))

\* C25: list returns one entry per marker line of the text send_command
\* returned, in the order of the lines: (name, dir) with the rest of the line
\* as name for a directory marker, (name, file) with everything before the
\* last whitespace-delimited token as name for a file marker; lines without a
\* marker and lines that carry the storage error marker give no entry.
C25_ListEntries ==
    Returned("storage_list") =>
        result.detail = EntriesOf(LogicalResponse(cmd, data))

\* a listing with a file whose name holds a space, a line without a marker, a
\* directory and an error line
C25_Witness ==
    /\ Returned("storage_list")
    /\ Contains(data, NoteLine)
    /\ Contains(data, ErrorText)
    /\ result.detail =
           <<<<<<"m", "y", " ", "f", ".", "n", "f", "c">>, "file">>,
             <<<<"n", "f", "c">>, "dir">>>>

MkdirEnded == op = "storage_mkdir" /\ pc = "idle" /\ log # <<>>

\* C26: a mkdir on an open session never fails because of what the device
\* answered: whenever its response read found the prompt it returns the text
\* of the answer, a storage error included, and a failure is a timeout of
\* that read only; it leaves the session open and idle, so that the next
\* mkdir can be issued.
C26_MkdirIdempotent ==
    MkdirEnded =>
        /\ result.status \in {"ok", "TimeoutError"}
        /\ Contains(data, CLI_PROMPT_BYTES) =>
               result = Ok(LogicalResponse(cmd, data))
        /\ result.status = "TimeoutError" => ~Contains(data, CLI_PROMPT_BYTES)
        /\ fd = "open"
        /\ handle = "open"

\* the second call of the run is a mkdir that the device answered with a
\* storage error
C26_Witness ==
    /\ MkdirEnded
    /\ ops = 2
    /\ faults = 1
    /\ result.status = "ok"
    /\ StartsWith(result.detail, STORAGE_ERROR)

\* the path as it is to be embedded in a command line
Embedded(path) ==
    IF \E i \in 1..Len(path) : path[i] = " "
    THEN <<"\"">> \o path \o <<"\"">>
    ELSE path

\* C27: every chunk-declare command of an upload, whichever chunk it
\* declares, is the command word, the destination path, a space and the size,
\* where the path stands in double quotes when it holds a space and bare
\* when it holds none; and the command line of mkdir embeds its path in the
\* same way.
C27_PathQuoted ==
    /\ op = "storage_write" =>
           \A i \in 1..Len(log) : IsDeclare(log[i]) =>
               log[i].b = STORAGE_WRITE_CHUNK \o Embedded(remote_path) \o <<" ">>
                              \o IntToStr(SizeOf(log[i])) \o CR
    /\ (op = "storage_mkdir" /\ log # <<>>) =>
           /\ \E path \in RemotePaths : cmd = STORAGE_MKDIR \o Embedded(path)
           /\ \A i \in 1..Len(log) :
                  (log[i].t = "write" /\ log[i].b # CRLF) => log[i].b = cmd \o CRLF

\* both chunks of an upload to a path with a space were declared
C27_Witness ==
    /\ op = "storage_write"
    /\ HasSpace(remote_path)
    /\ Len(Declares) = 2
    /\ \A i \in 1..2 : Contains(Declares[i].b, <<"\"">> \o remote_path \o <<"\"">>)
    /\ SizeOf(Declares[2]) = 488

Candidates == {globbed[i] : i \in 1..Len(globbed)}
\* the candidate that no other candidate precedes
FirstCandidate == CHOOSE c \in Candidates : \A d \in Candidates : StrLeq(c, d)

\* C28: a constructor that was given no port and finds no candidate is left
\* with FileNotFoundError, and only such a constructor is; a port that was
\* detected is the lexicographically first of the candidates, whatever the
\* order in which they were enumerated; with two or more candidates the
\* detection prints all of them and the one it uses, and the constructor
\* goes on to open that port.
C28_FirstPort ==
    /\ [](result.status = "FileNotFoundError" =>
              (op = "__init__" /\ globbed = <<>> /\ port = <<>> /\ pc = "unbound"))
    /\ [](op = "__init__" /\ globbed = <<>> =>
              (port = GivenPort \/ result.status = "FileNotFoundError"))
    /\ [](port \notin {<<>>, GivenPort} => port = FirstCandidate)
    /\ [](printed # <<>> =>
              /\ Len(globbed) >= 2
              /\ port = FirstCandidate
              /\ {printed[1].ports[i] : i \in 1..Len(printed[1].ports)} = Candidates
              /\ Len(printed[1].ports) = Len(globbed)
              /\ printed[2].ports = <<port>>
              /\ result.status # "FileNotFoundError")
    /\ [][(pc = "new" /\ pc' # "new" /\ Len(globbed) >= 2 /\ port' # GivenPort) =>
              (port' = FirstCandidate /\ printed' # <<>>)]_vars

\* three candidates enumerated last first: the first in order was opened
C28_Witness ==
    /\ op = "__init__"
    /\ pc = "idle"
    /\ globbed = <<PORT_PREFIX \o <<"a">>, PORT_PREFIX \o <<"B", "2">>, PORT_PREFIX \o <<"B">>>>
    /\ port = PORT_PREFIX \o <<"B">>
    /\ printed # <<>>

\* C29: the session holds a descriptor exactly while the port's descriptor is
\* open; from the return of the constructor until the first close it holds
\* the open descriptor, and once os.close has been called it holds none; a
\* descriptor is opened in the constructor only, at most once, and nothing
\* gives a session that holds none a descriptor again.
C29_OneHandle ==
    /\ [](fd = "open" <=> handle = "open")
    /\ []((pc \notin {"new", "unbound", "dead"} /\ closes = 0) =>
              (fd = "open" /\ handle = "open"))
    /\ [](closes >= 1 => (fd = "None" /\ handle = "closed"))
    /\ [][handle' # handle =>
              \/ handle = "none" /\ pc = "new"
              \/ handle = "open" /\ handle' = "closed"]_vars
    /\ [][fd' # fd =>
              \/ fd = "None" /\ pc = "new" /\ handle = "none" /\ fd' = "open"
              \/ fd' = "None"]_vars
    /\ [][port' # port => (pc = "new" /\ port = <<>>)]_vars

\* a session that was opened, used for a command and then closed
C29_Witness ==
    /\ op = "close"
    /\ ops = 2
    /\ cmd = <<>>
    /\ closes = 1
    /\ fd = "None"
    /\ handle = "closed"
    /\ port = DefaultPort
    /\ log = <<Cl>>

\* C30 (as claimed): the prompt is looked for in the de-ANSI'd bytes of the
\* response read: a call whose bytes read, once the control sequences are
\* removed, hold the prompt returns a value and does not time out.
C30_MarkersThroughCsi ==
    (/\ pc = "idle"
     /\ op \in SessionOps
     /\ log # <<>>
     /\ Contains(strip_ansi(data), CLI_PROMPT_BYTES))
        => result.status = "ok"


\* what the upload had received in its handshake or its acknowledgement loop
\* when it ended, as text
ReceivedText ==
    IF EndedAfterData THEN Decode(strip_ansi(resp_data))
    ELSE Decode(strip_ansi(ready_data))

\* C32 (as claimed): every TimeoutError of an upload, from the handshake or
\* from the acknowledgement, carries the tail of what was received, at most
\* the last SNIPPET_MAX bytes of it however much was received.  The code
\* bounds the snippet in _read_until_prompt only: the handshake message holds
\* the whole text received and the acknowledgement message holds none of it.
C32_BoundedSnippet ==
    (UploadEnded /\ result.status = "TimeoutError")
        => result.detail = LastN(ReceivedText, SNIPPET_MAX)


\* the step of storage_write that writes a chunk's raw data
WritesChunkData == pc = "ready" /\ pc' = "ack"
\* the shell has taken the declare command, has said all it had to say and
\* waits for the bytes of the chunk
DeviceAwaitsChunk == devin = <<>> /\ out = <<>> /\ devMode = Await(ChunkSize)

\* C34 (as claimed): a chunk's data is written only after the device has
\* emitted its Ready for that chunk; the echo of the declare command is never
\* taken for it.  The code looks for the five bytes "Ready" anywhere in what it
\* has read, the echoed destination path included.
C34_DataAfterReady == [][WritesChunkData => DeviceAwaitsChunk]_vars


\* upload_files is about to count the file as uploaded after its second attempt
RetrySucceeded ==
    /\ batch.pc = "wait"
    /\ batch.attempt = 1
    /\ pc = "idle"
    /\ result.status = "ok"

\* C33 (as claimed): when a file is reported uploaded after a retry, the
\* chunks the device had acknowledged in the failed first attempt were not
\* sent again: the second attempt delivered the rest of the file only.  The
\* code starts the second attempt at offset 0.
C33_NoDuplicateChunks ==
    RetrySucceeded =>
        ConcatBlocks(Blocks) = SubSeq(file_data, batch.acked + 1, Len(file_data))


\* what the shell prints for a command line between its echo and its prompt
DeviceOutputs == {Strip(OutputText), Strip(ErrorText)}

\* C35 (as claimed): the text send_command returns is the device's output for
\* the command it sent, whatever the earlier calls left behind; a prompt that
\* answers the quiescence newline never ends the read of the response.  The
\* code returns on the first prompt it reads after it has written the command.
C35_ResponseOfCommand ==
    (CommandEnded /\ result.status = "ok") => result.detail \in DeviceOutputs


\* C36 (as claimed): when upload_files returns, by the end of the list or by a
\* user interrupt in the middle of it, success + failed is the number of
\* uploads it was given.  The interrupt path adds total - i, the files after
\* the one at hand, and leaves the interrupted file itself out.
C36_EveryFileCounted ==
    batch.pc = "returned" => batch.success + batch.failed = Len(batch.uploads)


\* storage_write is at the test of its chunk loop or inside the loop
InChunkLoop == op = "storage_write" /\ pc \in {"declare", "ready", "ack"}
\* storage_write is inside an iteration of the loop, its head included
InIteration == InChunkLoop /\ (pc = "declare" => offset < Len(file_data))

\* C37: inside one upload offset = 512 * chunk_num at the head of every
\* iteration of the chunk loop (and through the iteration), and offset <= the
\* payload length there and at the test that ends the loop; the offset
\* advances only from the acknowledgement step, by the size of the chunk, when
\* the prompt and no storage error are in what was read; and a chunk shorter
\* than 512 bytes is declared only as the last one.
C37_OffsetTracksChunks ==
    /\ [](InIteration => offset = WRITE_CHUNK_MAX * chunk_num)
    /\ [](InChunkLoop => offset <= Len(file_data))
    /\ [][offset' # offset =>
              \/ offset' = 0
              \/ /\ pc = "ack"
                 /\ AckPromptSeen
                 /\ ~AckErrSeen
                 /\ offset' = offset + ChunkSize
                 /\ chunk_num' = chunk_num + 1]_vars
    /\ [][(pc = "declare" /\ pc' = "ready") =>
              (ChunkSize = WRITE_CHUNK_MAX \/ offset + ChunkSize = Len(file_data))]_vars

\* the second iteration of an upload of 1000 bytes: the first chunk was
\* acknowledged and the second, shorter one has been declared
C37_Witness ==
    /\ op = "storage_write"
    /\ pc = "ready"
    /\ chunk_num = 1
    /\ offset = 512
    /\ Len(Declares) = 2
    /\ SizeOf(Declares[2]) = 488


\* the command lines written by the call in progress, quiescence newlines aside
CommandLines == SelectSeq(log, LAMBDA e : e.t = "write" /\ e.b # CRLF)
\* the line `word` followed by a path embedded the way mkdir and upload do it
QuotedLines(word) == {word \o Embedded(path) \o CRLF : path \in RemotePaths}

\* C38 (as claimed): the command line storage_stat and storage_list write
\* carries the path in double quotes when the path holds a space, and bare
\* when it holds none.  The code puts the path into both lines as it is.
C38_QueryPathQuoted ==
    /\ op = "storage_stat" =>
           \A i \in 1..Len(CommandLines) : CommandLines[i].b \in QuotedLines(STORAGE_STAT)
    /\ op = "storage_list" =>
           \A i \in 1..Len(CommandLines) : CommandLines[i].b \in QuotedLines(STORAGE_LIST)


\* the directory a destination lies in
ParentOf(remote) == SubSeq(remote, 1, LastSlash(remote) - 1)
\* the mkdir command lines the deployment has written so far
Issued == {batch.issued[k] : k \in 1..Len(batch.issued)}
\* upload_files has been called
UploadPhase == batch.pc \in {"file", "wait", "recover", "flush", "retry", "returned"}

\* C31: in a deployment every chunk-declare command is written after a mkdir
\* command for the parent directory of every upload destination was written;
\* upload_files is called only when the loop over the directories is over and
\* no storage_mkdir is in progress, and then, unless the run is a dry run, a
\* mkdir command has been written for every directory of the list.
C31_DirsBeforeUploads ==
    /\ [][(batch.pc # "off" /\ pc = "declare" /\ pc' = "ready") =>
              \A i \in 1..Len(batch.uploads) :
                  (STORAGE_MKDIR \o Embedded(ParentOf(batch.uploads[i].remote)))
                      \in Issued]_vars
    /\ [](UploadPhase =>
              /\ batch.d > Len(batch.dirs)
              /\ op = "storage_mkdir" => pc = "idle"
              /\ ~batch.dry_run =>
                     \A k \in 1..Len(batch.dirs) :
                         (STORAGE_MKDIR \o Embedded(batch.dirs[k])) \in Issued)

\* the first chunk of the amiibo file has been declared; the directory of its
\* series, which only the upload list names, is among the fourteen made
C31_Witness ==
    /\ ~batch.dry_run
    /\ batch.pc = "wait"
    /\ pc = "ready"
    /\ remote_path = AMIIBO_FILE
    /\ (STORAGE_MKDIR \o ParentOf(AMIIBO_FILE)) \in Issued
    /\ Len(batch.issued) = 14

\* the directories above d, "/ext" and the root included
Ancestors(d) == {SubSeq(d, 1, k - 1) : k \in Positions(d, "/")}
BelowExt(a) == StartsWith(a, EXT \o <<"/">>)

\* C39 (as claimed): in the list of directories the deployment creates, every
\* ancestor below /ext of every directory is in the list and stands before
\* it.  The list is sorted, so an ancestor that is in it stands first; but
\* FLIPPER_DIRS names /ext/apps/NFC and /ext/apps_data/music_player without
\* /ext/apps and /ext/apps_data, which only an upload below them adds.
C39_ParentsFirst ==
    \A i \in 1..Len(batch.dirs) :
        \A a \in Ancestors(batch.dirs[i]) :
            BelowExt(a) => \E j \in 1..(i - 1) : batch.dirs[j] = a

====
